---- MODULE Spec2Model ----
(***************************************************************************)
(* QriBot-2025: the forward-analysis command plugin                        *)
(* (src/plugins/foward_analyse/__init__.py) and the flattener and gate of  *)
(* the justice plugin (src/plugins/justice/__init__.py).                   *)
(*                                                                         *)
(* Python values are modelled as follows.                                  *)
(*  - A dict is a record; a missing key is a field that is not in DOMAIN.  *)
(*  - A JSON-like value (what messageToSimple returns) is a tagged record: *)
(*    JStr(s) for a str, JList(l) for a list, so that a str and a list can *)
(*    be compared.                                                         *)
(*  - A short str is a TLA+ string; the text of a file is a sequence of    *)
(*    tokens (see the front-matter parser).                                *)
(*  - The string literals of the source are Chinese; they are written here *)
(*    in ASCII (pinyin or an English rendering), one definition each.      *)
(***************************************************************************)
EXTENDS Integers, Sequences, FiniteSets, TLC

VARIABLES
    \* ---- transcript flattener, driven on its own (SpecFlat)
    fwd_stack,      \* the forwarded bundles being assembled by the platform
    flat,           \* the last call of the flatteners: input and outputs
    \* ---- access gate, driven on its own (SpecGate) and used by Spec
    driver_config,  \* driver.config: the allow-lists
    gate,           \* the last event given to the permission rules, and the results
    \* ---- the command handler (Spec)
    disk,               \* the files of PLUGIN_DIR/prompts
    PROMPT_ALIAS_MAP,   \* the module global: alias -> path
    pc,                 \* per handler invocation: where it is suspended
    req,                \* per handler invocation: event and command
    loc,                \* per handler invocation: locals alive across an await
    sent,               \* per handler invocation: the messages given to send()
    calls,              \* per handler invocation: renderer and completion calls
    errlog,             \* per handler invocation: logger.error calls
    \* ---- the front-matter parser and the loader, driven on their own (SpecDocs)
    parsed              \* the last call of the parser and of the loader on a file

flatVars == <<fwd_stack, flat>>
gateVars == <<driver_config, gate>>
handlerVars == <<disk, PROMPT_ALIAS_MAP, pc, req, loc, sent, calls, errlog>>
docVars == <<parsed>>
vars == <<fwd_stack, flat, driver_config, gate,
          disk, PROMPT_ALIAS_MAP, pc, req, loc, sent, calls, errlog, parsed>>

(***************************************************************************)
(* Bounds of the model.                                                    *)
(***************************************************************************)
MaxNodes == 5       \* bundles + sub-messages in an assembled forward tree
MaxDepth == 2       \* nesting levels of forwards inside the quoted forward
MaxUserId == 2      \* requester ids 1..MaxUserId
MaxGroupId == 2     \* group ids 1..MaxGroupId

Senders == {"Alice", "Bob"}
Texts == {"hi", "yo"}
OtherTypes == {"image"}         \* a sub-message that is neither text nor forward
UserIds == 1..MaxUserId
GroupIds == 1..MaxGroupId

(***************************************************************************)
(* JSON-like values.                                                       *)
(***************************************************************************)
JStr(s) == [t |-> "str", v |-> s]
JList(l) == [t |-> "list", v |-> l]

\* Line 457: the second element of a forwarded group, the literal
\* "hebing zhuanfa" (merged forward) in the source.
ForwardMarker == "merged-forward"

(***************************************************************************)
(* Forwarded bundles (OneBot v11 node dicts).                              *)
(***************************************************************************)
TextSeg(x) == [type |-> "text", data |-> [text |-> x]]
OtherSeg(ty) == [type |-> ty, data |-> [file |-> "f"]]
ForwardSeg(content) == [type |-> "forward", data |-> [content |-> content]]
Bundle(nick, segs) == [sender |-> [nickname |-> nick], message |-> segs]

RECURSIVE messageToSimple(_), segmentsToSimple(_, _)
RECURSIVE extractListMessage(_), extractSegments(_, _)
RECURSIVE segmentsToSimple_extend(_, _), segmentsToSimple_emitall(_, _)
RECURSIVE extractSegments_shallow(_, _)

\* Mutant of the inner loop of extractListMessage: a forwarded sub-message
\* is passed over instead of being flattened into the result.
extractSegments_shallow(upperSender, segs) ==
    IF Len(segs) = 0 THEN <<>>
    ELSE LET message == Head(segs)
             messageType == message.type
         IN  (IF messageType = "text"
                 THEN <<JStr(upperSender \o ": " \o message.data.text)>>
                 ELSE <<>>)
             \o extractSegments_shallow(upperSender, Tail(segs))

\* Mutant of the inner loop of messageToSimple: res.extend instead of the
\* append of a group (what extractListMessage does).
segmentsToSimple_extend(upperSender, segs) ==
    IF Len(segs) = 0 THEN <<>>
    ELSE LET message == Head(segs)
             messageType == message.type
         IN  (IF messageType = "forward"
                 THEN messageToSimple(message.data.content)
                 ELSE <<>>)
             \o (IF messageType = "text"
                 THEN <<JStr(upperSender \o ": " \o message.data.text)>>
                 ELSE <<>>)
             \o segmentsToSimple_extend(upperSender, Tail(segs))

\* Mutant of the inner loop of messageToSimple: an else branch that emits a
\* placeholder for every other type.
segmentsToSimple_emitall(upperSender, segs) ==
    IF Len(segs) = 0 THEN <<>>
    ELSE LET message == Head(segs)
             messageType == message.type
         IN  (IF messageType = "forward"
                 THEN <<JList(<<JStr(upperSender), JStr(ForwardMarker),
                                JList(messageToSimple(message.data.content))>>)>>
                 ELSE IF messageType = "text"
                 THEN <<JStr(upperSender \o ": " \o message.data.text)>>
                 ELSE <<JStr(upperSender \o ": [" \o messageType \o "]")>>)
             \o segmentsToSimple_emitall(upperSender, Tail(segs))

\* Lines 454-459: the loop over the sub-messages of one bundle.  The two ifs
\* are independent, each appends at most one entry to res.
segmentsToSimple(upperSender, segs) ==
    IF Len(segs) = 0 THEN <<>>
    ELSE LET message == Head(segs)
             messageType == message.type
         IN  (IF messageType = "forward"
                 THEN <<JList(<<JStr(upperSender), JStr(ForwardMarker),
                                JList(messageToSimple(message.data.content))>>)>>
                 ELSE <<>>)
             \o (IF messageType = "text"
                 THEN <<JStr(upperSender \o ": " \o message.data.text)>>
                 ELSE <<>>)
             \o segmentsToSimple(upperSender, Tail(segs))

\* Lines 449-460: messageToSimple, the loop over the bundles.
messageToSimple(messages) ==
    IF Len(messages) = 0 THEN <<>>
    ELSE segmentsToSimple(Head(messages).sender.nickname, Head(messages).message)
         \o messageToSimple(Tail(messages))

\* justice plugin, lines 284-290: the loop over the sub-messages of one bundle.
extractSegments(upperSender, segs) ==
    IF Len(segs) = 0 THEN <<>>
    ELSE LET message == Head(segs)
             messageType == message.type
         IN  (IF messageType = "forward"
                 THEN extractListMessage(message.data.content)
                 ELSE <<>>)
             \o (IF messageType = "text"
                 THEN <<JStr(upperSender \o ": " \o message.data.text)>>
                 ELSE <<>>)
             \o extractSegments(upperSender, Tail(segs))

\* justice plugin, lines 279-291: extractListMessage.
extractListMessage(messages) ==
    IF Len(messages) = 0 THEN <<>>
    ELSE extractSegments(Head(messages).sender.nickname, Head(messages).message)
         \o extractListMessage(Tail(messages))

(***************************************************************************)
(* The platform assembling a quoted forward: fwd_stack[1] is the top-level *)
(* list of bundles, fwd_stack[k+1] the content of the forward being        *)
(* assembled inside the last bundle of fwd_stack[k].                       *)
(***************************************************************************)
RECURSIVE NodesOfBundles(_), NodesOfSegs(_)
NodesOfSegs(segs) ==
    IF Len(segs) = 0 THEN 0
    ELSE 1 + (IF Head(segs).type = "forward"
                 THEN NodesOfBundles(Head(segs).data.content) ELSE 0)
           + NodesOfSegs(Tail(segs))
NodesOfBundles(bs) ==
    IF Len(bs) = 0 THEN 0
    ELSE 1 + NodesOfSegs(Head(bs).message) + NodesOfBundles(Tail(bs))

RECURSIVE NodesOfStack(_)
NodesOfStack(st) ==
    IF Len(st) = 0 THEN 0 ELSE NodesOfBundles(Head(st)) + NodesOfStack(Tail(st))

\* append a sub-message to the last bundle of a list of bundles
AppendSeg(bs, seg) ==
    [bs EXCEPT ![Len(bs)].message = Append(@, seg)]

Top == fwd_stack[Len(fwd_stack)]
SetTop(bs) == [fwd_stack EXCEPT ![Len(fwd_stack)] = bs]
Room == ~flat.done /\ NodesOfStack(fwd_stack) + (Len(fwd_stack) - 1) < MaxNodes

OpenBundle ==
    /\ Room
    /\ \E nick \in Senders : fwd_stack' = SetTop(Append(Top, Bundle(nick, <<>>)))
    /\ UNCHANGED <<flat, gateVars, handlerVars, docVars>>

AddText ==
    /\ Room /\ Len(Top) > 0
    /\ \E x \in Texts : fwd_stack' = SetTop(AppendSeg(Top, TextSeg(x)))
    /\ UNCHANGED <<flat, gateVars, handlerVars, docVars>>

AddOther ==
    /\ Room /\ Len(Top) > 0
    /\ \E ty \in OtherTypes : fwd_stack' = SetTop(AppendSeg(Top, OtherSeg(ty)))
    /\ UNCHANGED <<flat, gateVars, handlerVars, docVars>>

OpenForward ==
    /\ Room /\ Len(Top) > 0
    /\ Len(fwd_stack) <= MaxDepth
    /\ fwd_stack' = Append(fwd_stack, <<>>)
    /\ UNCHANGED <<flat, gateVars, handlerVars, docVars>>

CloseForward ==
    /\ ~flat.done /\ Len(fwd_stack) > 1
    /\ LET below == SubSeq(fwd_stack, 1, Len(fwd_stack) - 1)
       IN  fwd_stack' = [below EXCEPT ![Len(below)] = AppendSeg(@, ForwardSeg(Top))]
    /\ UNCHANGED <<flat, gateVars, handlerVars, docVars>>

\* The two flatteners applied to the assembled forward.
Flatten ==
    /\ ~flat.done /\ Len(fwd_stack) = 1
    /\ flat' = [done |-> TRUE,
                messages |-> fwd_stack[1],
                simple |-> messageToSimple(fwd_stack[1]),
                list |-> extractListMessage(fwd_stack[1])]
    /\ UNCHANGED <<fwd_stack, gateVars, handlerVars, docVars>>

FlatIdle ==
    /\ fwd_stack = << <<>> >>
    /\ flat = [done |-> FALSE]

(***************************************************************************)
(* Access gate.                                                            *)
(***************************************************************************)
\* Events: PrivateMessageEvent, GroupMessageEvent, and any other event
\* (a notice), as the rule sees them.
Events ==
    [kind : {"private"}, user_id : UserIds]
    \cup [kind : {"group"}, user_id : UserIds, group_id : GroupIds]
    \cup [kind : {"notice"}, user_id : UserIds]

\* Mutant of check_user_permission: a group event is also accepted when its
\* group is in a group allow-list of the configuration.
check_user_permission_group(event, config) ==
    IF event.kind \in {"private", "group"}
    THEN \/ event.user_id \in config.ANA_USER_ID_ALLOW_LIST
         \/ event.kind = "group" /\ event.group_id \in config.GROUP_ID_ALLOW_LIST
    ELSE FALSE

\* Mutant of check_user_permission: an empty allow-list lets everyone in.
check_user_permission_open(event, config) ==
    IF event.kind \in {"private", "group"}
    THEN IF config.ANA_USER_ID_ALLOW_LIST = {} THEN TRUE
         ELSE event.user_id \in config.ANA_USER_ID_ALLOW_LIST
    ELSE FALSE

\* foward_analyse, lines 147-156: check_user_permission.
check_user_permission(event, config) ==
    IF event.kind \in {"private", "group"}
    THEN IF config.ANA_USER_ID_ALLOW_LIST = {} THEN FALSE
         ELSE event.user_id \in config.ANA_USER_ID_ALLOW_LIST
    ELSE FALSE

\* justice, lines 66-75: check_user_permission.
justice_check_user_permission(event, config) ==
    IF event.kind \in {"private", "group"}
    THEN IF config.JUSTICE_USER_ID_ALLOW_LIST = {} THEN FALSE
         ELSE event.user_id \in config.JUSTICE_USER_ID_ALLOW_LIST
    ELSE FALSE

\* driver.config as PluginConfig.model_validate reads it (lines 27-55): the
\* two user allow-lists, and, because extra keys are allowed, whatever else
\* the operator configured; GROUP_ID_ALLOW_LIST is such a key, no code reads it.
Configs ==
    [ANA_USER_ID_ALLOW_LIST : SUBSET UserIds,
     JUSTICE_USER_ID_ALLOW_LIST : SUBSET UserIds,
     GROUP_ID_ALLOW_LIST : SUBSET GroupIds]

\* The matcher rules evaluated on an incoming event.
GateCheck ==
    /\ \E event \in Events :
         gate' = [seen |-> TRUE, event |-> event,
                  ana |-> check_user_permission(event, driver_config),
                  justice |-> justice_check_user_permission(event, driver_config)]
    /\ UNCHANGED <<driver_config, flatVars, handlerVars, docVars>>

GateIdle == gate = [seen |-> FALSE]

(***************************************************************************)
(* Files of PLUGIN_DIR/prompts.  The text of a file is a sequence of       *)
(* tokens: "---" is three dashes, "\n" a newline, " " a blank, "-" one     *)
(* more dash; any other token is a run of characters without a newline: a  *)
(* YAML line ("alias: [al]") or body text.                                 *)
(***************************************************************************)
Ws == {" ", "\n"}           \* what \s matches

Absent == [exists |-> FALSE, readable |-> FALSE, text |-> <<>>]
Unreadable == [exists |-> TRUE, readable |-> FALSE, text |-> <<>>]
File(text) == [exists |-> TRUE, readable |-> TRUE, text |-> text]

\* Paths are relative to PLUGIN_DIR: <<"prompts", name>>.
PromptsDir == <<"prompts">>
PathIn(dir, name) == Append(dir, name)
PathName(path) == path[Len(path)]

\* Lines 59-60: both trigger paths are the same file in this module.
SYSTEM_PROMPT_JUSTICE_PATH == PathIn(PromptsDir, "alignment_prompt.md")
SYSTEM_PROMPT_ANA_PATH == PathIn(PromptsDir, "alignment_prompt.md")

\* The names a file of the directory can have in the model, in sorted order.
MdOrder == <<"alignment_prompt.md", "how_to_say.md">>
MdNames == {MdOrder[i] : i \in 1..Len(MdOrder)}
FileNames == MdNames \cup {"test.html"}

\* Path.stem of an .md name
Stem(name) ==
    CASE name = "alignment_prompt.md" -> "alignment_prompt"
      [] name = "how_to_say.md" -> "how_to_say"
      [] OTHER -> name

\* str.endswith(".md") on the names the model uses
EndsWithMd(name) == name \in MdNames \cup {"nope.md", "al.md"}

FileAt(d, path) ==
    IF Len(path) = 2 /\ path[1] = "prompts" /\ path[2] \in DOMAIN d
    THEN d[path[2]] ELSE Absent

\* Path.exists()
PathExists(d, path) == FileAt(d, path).exists

\* sorted(prompts_dir.glob("*.md"))
SortedMdFiles(d) == SelectSeq(MdOrder, LAMBDA n : d[n].exists)

SetMax(S) == CHOOSE x \in S : \A y \in S : y <= x
SetMin(S) == CHOOSE x \in S : \A y \in S : x <= y

(***************************************************************************)
(* Front-matter parser.                                                    *)
(***************************************************************************)
\* ends of the opening  ---\s*\n : i with c[2..i-1] whitespace and c[i] a newline
HeadEnds(c) ==
    {i \in 2..Len(c) : c[i] = "\n" /\ \A m \in 2..(i - 1) : c[m] \in Ws}
\* ends of the closing  \n---\s*\n  that starts at j
CloseEnds(c, j) ==
    {k \in (j + 2)..Len(c) : c[k] = "\n" /\ \A m \in (j + 2)..(k - 1) : c[m] \in Ws}
\* starts of a closing delimiter after an opening that ends at i
Closers(c, i) ==
    {j \in (i + 1)..(Len(c) - 1) :
        c[j] = "\n" /\ c[j + 1] = "---" /\ CloseEnds(c, j) # {}}

\* Mutant of re_match_front_matter: the closing delimiter is not required.
re_match_front_matter_noclose(content) ==
    IF Len(content) > 0 /\ content[1] = "---" /\ HeadEnds(content) # {}
    THEN [matched |-> TRUE, group1 |-> <<>>,
          group2 |-> SubSeq(content, SetMax(HeadEnds(content)) + 1, Len(content))]
    ELSE [matched |-> FALSE, group1 |-> <<>>, group2 |-> <<>>]

\* Lines 76-77: re.match(r'^---\s*\n(.*?)\n---\s*\n(.*)$', content, re.DOTALL).
\* \s* is greedy (longest first), (.*?) lazy (shortest first), (.*) takes the rest.
re_match_front_matter(content) ==
    LET good == IF Len(content) > 0 /\ content[1] = "---"
                THEN {i \in HeadEnds(content) : Closers(content, i) # {}}
                ELSE {}
    IN  IF good = {}
        THEN [matched |-> FALSE, group1 |-> <<>>, group2 |-> <<>>]
        ELSE LET i == SetMax(good)
                 j == SetMin(Closers(content, i))
                 k == SetMax(CloseEnds(content, j))
             IN  [matched |-> TRUE,
                  group1 |-> SubSeq(content, i + 1, j - 1),
                  group2 |-> SubSeq(content, k + 1, Len(content))]

\* What yaml.safe_load gives for the lines the model uses.  An item of an
\* alias list is a str or not (an int): line 121 tells them apart.
NoAlias == [present |-> FALSE, is_list |-> FALSE, items |-> <<>>]
YamlNone == [kind |-> "none", alias |-> NoAlias]
StrItem(v) == [is_str |-> TRUE, v |-> v]
IntItem(v) == [is_str |-> FALSE, v |-> v]
YamlMappingLines ==
    {"alias: [al]", "alias: [x]", "alias: al", "title: t",
     "alias: [7, x]", "alias: [x, alignment_prompt]", "alias: [how_to_say]"}
YamlAliasOf(line) ==
    CASE line = "alias: [al]" ->
            [present |-> TRUE, is_list |-> TRUE, items |-> <<StrItem("al")>>]
      [] line = "alias: [x]" ->
            [present |-> TRUE, is_list |-> TRUE, items |-> <<StrItem("x")>>]
      [] line = "alias: al" ->
            [present |-> TRUE, is_list |-> FALSE, items |-> <<StrItem("al")>>]
      [] line = "alias: [7, x]" ->
            [present |-> TRUE, is_list |-> TRUE, items |-> <<IntItem("7"), StrItem("x")>>]
      [] line = "alias: [x, alignment_prompt]" ->
            [present |-> TRUE, is_list |-> TRUE,
             items |-> <<StrItem("x"), StrItem("alignment_prompt")>>]
      [] line = "alias: [how_to_say]" ->
            [present |-> TRUE, is_list |-> TRUE, items |-> <<StrItem("how_to_say")>>]
      [] OTHER -> NoAlias

\* Line 82: yaml.safe_load(yaml_content), for a block of whole lines without
\* indentation.  A leading "---" line is the document start marker and is
\* skipped.  The value is None for an empty block, a dict for mapping lines
\* (a repeated key: the last one), a str for a plain scalar (which runs over
\* the lines that follow it); it raises on anything else: a mapping line
\* after a scalar, a scalar after a mapping line, an open flow mapping, a
\* second document.
yaml_safe_load(block) ==
    LET lines == SelectSeq(block, LAMBDA tok : tok \notin Ws)
        sig == IF Len(lines) > 0 /\ lines[1] = "---" THEN Tail(lines) ELSE lines
        decl == SelectSeq(sig, LAMBDA tok : YamlAliasOf(tok).present)
    IN  IF Len(sig) = 0 THEN [raises |-> FALSE, value |-> YamlNone]
        ELSE IF \A i \in 1..Len(sig) : sig[i] \in YamlMappingLines
        THEN [raises |-> FALSE,
              value |-> [kind |-> "dict",
                         alias |-> IF Len(decl) = 0 THEN NoAlias
                                   ELSE YamlAliasOf(decl[Len(decl)])]]
        ELSE IF /\ sig[1] \notin YamlMappingLines \cup {"{bad", "---", "-"}
                /\ \A i \in 2..Len(sig) : sig[i] \notin YamlMappingLines \cup {"---"}
        THEN [raises |-> FALSE, value |-> [kind |-> "str", alias |-> NoAlias]]
        ELSE [raises |-> TRUE, value |-> YamlNone]

\* Mutant of parse_yaml_front_matter: a metadata block that cannot be parsed
\* is dropped and the text after it returned.
parse_yaml_front_matter_keepbody(file) ==
    IF ~(file.exists /\ file.readable)
    THEN [front_matter |-> YamlNone, content |-> <<>>, raised |-> TRUE]
    ELSE LET match == re_match_front_matter(file.text)
         IN  IF match.matched
             THEN [front_matter |-> IF yaml_safe_load(match.group1).raises THEN YamlNone
                                    ELSE yaml_safe_load(match.group1).value,
                   content |-> match.group2, raised |-> FALSE]
             ELSE [front_matter |-> YamlNone, content |-> file.text, raised |-> FALSE]

\* Lines 66-88: parse_yaml_front_matter.  raised: the except branch was taken
\* (the error is logged and (None, "") returned).
parse_yaml_front_matter(file) ==
    IF ~(file.exists /\ file.readable)
    THEN [front_matter |-> YamlNone, content |-> <<>>, raised |-> TRUE]
    ELSE LET match == re_match_front_matter(file.text)
             loaded == yaml_safe_load(match.group1)
         IN  IF match.matched
             THEN IF loaded.raises
                  THEN [front_matter |-> YamlNone, content |-> <<>>, raised |-> TRUE]
                  ELSE [front_matter |-> loaded.value, content |-> match.group2,
                        raised |-> FALSE]
             ELSE [front_matter |-> YamlNone, content |-> file.text, raised |-> FALSE]

\* no call of the parser yet
NoParse == [done |-> FALSE]
DocIdle == parsed = NoParse

(***************************************************************************)
(* Template registry.                                                      *)
(***************************************************************************)
EmptyDict == [k \in {} |-> <<>>]

\* Mutant of Put: a key that is already there keeps its value.
Put_keepfirst(map, k, v) ==
    [x \in (DOMAIN map) \cup {k} |-> IF x \in DOMAIN map THEN map[x] ELSE v]

\* Lines 111, 112, 122: alias_map[k] = v.
Put(map, k, v) == [x \in (DOMAIN map) \cup {k} |-> IF x = k THEN v ELSE map[x]]

\* Mutant of RegisterAliases: a list with an item that is not a string
\* registers nothing.
RegisterAliases_strict(alias_map, items, file_path) ==
    IF \E i \in 1..Len(items) : ~items[i].is_str THEN alias_map
    ELSE LET reg[n \in 0..Len(items)] ==
                 IF n = 0 THEN alias_map ELSE Put(reg[n - 1], items[n].v, file_path)
         IN  reg[Len(items)]

RECURSIVE RegisterAliases(_, _, _)
\* Lines 120-123: the loop over the declared aliases.
RegisterAliases(alias_map, items, file_path) ==
    IF Len(items) = 0 THEN alias_map
    ELSE IF Head(items).is_str
    THEN RegisterAliases(Put(alias_map, Head(items).v, file_path), Tail(items), file_path)
    ELSE RegisterAliases(alias_map, Tail(items), file_path)

\* Lines 105-125: one md_file of the loop.
RegisterFile(alias_map, d, name) ==
    LET file_path == PathIn(PromptsDir, name)
        named == Put(Put(alias_map, name, file_path), Stem(name), file_path)
        front_matter == parse_yaml_front_matter(d[name]).front_matter
    IN  IF front_matter.kind = "dict" /\ front_matter.alias.present
           /\ front_matter.alias.is_list
        THEN RegisterAliases(named, front_matter.alias.items, file_path)
        ELSE named

RECURSIVE RegisterFiles(_, _, _)
RegisterFiles(alias_map, d, md_files) ==
    IF Len(md_files) = 0 THEN alias_map
    ELSE RegisterFiles(RegisterFile(alias_map, d, Head(md_files)), d, Tail(md_files))

\* Mutant of load_prompt_aliases: the mapping is handed over after the first
\* file of the scan.
load_prompt_aliases_partial(d) ==
    IF Len(SortedMdFiles(d)) = 0 THEN EmptyDict
    ELSE RegisterFile(EmptyDict, d, Head(SortedMdFiles(d)))

\* Lines 90-128: load_prompt_aliases.
load_prompt_aliases(d) == RegisterFiles(EmptyDict, d, SortedMdFiles(d))

\* ---- the registry driven on its own: the operator edits the files of the
\* directory, and the registry is refreshed from it.
DocAliasX == <<"---", "\n", "alias: [x]", "\n", "---", "\n", "body">>
DocAliasXStem == <<"---", "\n", "alias: [x, alignment_prompt]", "\n", "---", "\n", "body">>
DocAliasInt == <<"---", "\n", "alias: [7, x]", "\n", "---", "\n", "body">>
DocAliasScalar == <<"---", "\n", "alias: al", "\n", "---", "\n", "body">>
DocAliasHow == <<"---", "\n", "alias: [how_to_say]", "\n", "---", "\n", "body">>
DocTwoKeys == <<"---", "\n", "alias: [al]", "\n", "alias: [x]", "\n", "---", "\n", "body">>
DocBadYaml == <<"---", "\n", "{bad", "\n", "---", "\n", "body">>
DocPlain == <<"body">>
RegistryDocs ==
    {DocAliasX, DocAliasXStem, DocAliasInt, DocAliasScalar, DocAliasHow, DocTwoKeys,
     DocBadYaml, DocPlain}
RegistryFileStates == {Absent, Unreadable} \cup {File(doc) : doc \in RegistryDocs}

\* Lines 229-230: PROMPT_ALIAS_MAP = load_prompt_aliases().
Refresh ==
    /\ PROMPT_ALIAS_MAP' = load_prompt_aliases(disk)
    /\ UNCHANGED <<disk, pc, req, loc, sent, calls, errlog, flatVars, gateVars, docVars>>

\* The operator adds, removes or replaces a template.
RegistryEdit ==
    /\ \E name \in MdNames :
         \E state \in RegistryFileStates :
            /\ state # disk[name]
            /\ disk' = [disk EXCEPT ![name] = state]
    /\ UNCHANGED <<PROMPT_ALIAS_MAP, pc, req, loc, sent, calls, errlog,
                   flatVars, gateVars, docVars>>

\* Line 143: the registry is built when the module is loaded.
RegistryInit ==
    /\ disk \in [FileNames -> RegistryFileStates]
    /\ disk["test.html"] = Absent
    /\ PROMPT_ALIAS_MAP = load_prompt_aliases(disk)

\* Line 356: the prompt returned when the template cannot be read.
FallbackPrompt == <<"you are a fair judge, assess the conversation objectively">>

\* Mutant of load_prompt_content: an unreadable template gives an empty prompt.
load_prompt_content_empty(d, path) ==
    LET file == FileAt(d, path)
        markdown_content == parse_yaml_front_matter(file).content
    IN  IF ~(file.exists /\ file.readable) THEN <<>>
        ELSE IF Len(markdown_content) > 0 THEN markdown_content
        ELSE file.text

\* Lines 346-356: load_prompt_content.
load_prompt_content(d, path) ==
    LET file == FileAt(d, path)
        markdown_content == parse_yaml_front_matter(file).content
    IN  IF ~(file.exists /\ file.readable) THEN FallbackPrompt
        ELSE IF Len(markdown_content) > 0 THEN markdown_content
        ELSE file.text

\* ---- the parser and the loader driven on their own: a document is written
\* token by token into one file, then parsed or loaded.
MaxDocLen == 10     \* tokens of the document
DocFile == "alignment_prompt.md"
DocLines == {"---", "alias: [al]", "{bad", "body"}

\* A token may follow the text: a line starts the text or follows a newline;
\* a blank follows a "---" (trailing white space of a delimiter line).
MayFollow(text, tok) ==
    IF tok = "\n" THEN TRUE
    ELSE IF Len(text) = 0 THEN tok # " "
    ELSE IF tok = " " THEN text[Len(text)] = "---"
    ELSE text[Len(text)] = "\n"

AppendToken ==
    /\ ~parsed.done
    /\ disk[DocFile].exists /\ disk[DocFile].readable
    /\ Len(disk[DocFile].text) < MaxDocLen
    /\ \E tok \in DocLines \cup Ws :
         /\ MayFollow(disk[DocFile].text, tok)
         /\ disk' = [disk EXCEPT ![DocFile] = File(Append(@.text, tok))]
    /\ UNCHANGED <<PROMPT_ALIAS_MAP, pc, req, loc, sent, calls, errlog,
                   flatVars, gateVars, docVars>>

\* A call of parse_yaml_front_matter(file_path).
ParseFile ==
    /\ ~parsed.done
    /\ LET r == parse_yaml_front_matter(disk[DocFile])
       IN  parsed' = [done |-> TRUE, call |-> "parse", front_matter |-> r.front_matter,
                      content |-> r.content, raised |-> r.raised]
    /\ UNCHANGED <<handlerVars, flatVars, gateVars>>

\* A call of load_prompt_content(path).
LoadFile ==
    /\ ~parsed.done
    /\ parsed' = [done |-> TRUE, call |-> "load",
                  value |-> load_prompt_content(disk, PathIn(PromptsDir, DocFile))]
    /\ UNCHANGED <<handlerVars, flatVars, gateVars>>

DocsInit ==
    /\ disk \in [FileNames -> {Absent, Unreadable, File(<<>>)}]
    /\ \A n \in FileNames \ {DocFile} : disk[n] = Absent
    /\ PROMPT_ALIAS_MAP = EmptyDict
    /\ DocIdle

(***************************************************************************)
(* Command trigger table.  The aliases are Chinese in the source, pinyin   *)
(* here.                                                                   *)
(***************************************************************************)
\* Lines 158-167.
TriggerKeys == <<"justice", "ana">>
triggers ==
    [justice |-> [promptFilePath |-> SYSTEM_PROMPT_JUSTICE_PATH,
                  aliases |-> <<"qingting-duizhang", "zhengyi",
                                "tianjiang-zhengyi", "caipan">>],
     ana |-> [promptFilePath |-> SYSTEM_PROMPT_ANA_PATH,
              aliases |-> <<"analyse", "fenxi", "zenmeshuo", "ruhe-pingjia">>]]

SeqRange(q) == {q[i] : i \in 1..Len(q)}

\* Lines 170-176: get_all_aliases.
get_all_aliases ==
    UNION {{TriggerKeys[i]} \cup SeqRange(triggers[TriggerKeys[i]].aliases) :
              i \in 1..Len(TriggerKeys)}

\* Mutant of MapAliases: the aliases of a trigger are not mapped.
MapAliases_keysonly(command_map, aliases, prompt_file_path) == command_map

RECURSIVE MapAliases(_, _, _), MapTriggers(_, _)
MapAliases(command_map, aliases, prompt_file_path) ==
    IF Len(aliases) = 0 THEN command_map
    ELSE MapAliases(Put(command_map, Head(aliases), prompt_file_path),
                    Tail(aliases), prompt_file_path)
MapTriggers(command_map, keys) ==
    IF Len(keys) = 0 THEN command_map
    ELSE LET trigger_config == triggers[Head(keys)]
         IN  MapTriggers(
                 MapAliases(Put(command_map, Head(keys), trigger_config.promptFilePath),
                            trigger_config.aliases, trigger_config.promptFilePath),
                 Tail(keys))

\* Lines 179-191: build_command_to_prompt_map, commandToPromptFilePath.
build_command_to_prompt_map == MapTriggers(EmptyDict, TriggerKeys)
commandToPromptFilePath == build_command_to_prompt_map

\* Lines 194-200: the keywords the matcher dispatches to the handler.
MatcherKeywords == {"ana"} \cup get_all_aliases

(***************************************************************************)
(* The command handler, handle_ana_command (lines 203-434).                *)
(*                                                                         *)
(* The handler is a coroutine: it runs without interruption from one await *)
(* to the next.  The awaits are the renderer calls (md_to_pic,             *)
(* html_to_pic) and send(); file reads, the registry refresh, the          *)
(* flattener and the completion call (a synchronous client) are not.  One  *)
(* action below is one such run.  send() is taken to deliver: the message  *)
(* is recorded when send() is called.                                      *)
(***************************************************************************)
Slots == {"r1", "r2"}

\* Mutant of ReplySeg: every reply quotes the first message.
ReplySeg_first(id) == [type |-> "reply", data |-> [id |-> 1]]

\* ---- message segments (MessageSegment.reply / text / image)
ReplySeg(id) == [type |-> "reply", data |-> [id |-> id]]
MsgText(tokens) == [type |-> "text", data |-> [text |-> tokens]]
ImageSeg(pic) == [type |-> "image", data |-> [file |-> pic]]

\* what md_to_pic / html_to_pic return for a text
Pic(text, width) == [rendered |-> text, max_width |-> width]

\* ---- the literal texts of the replies (Chinese in the source)
UsageHint == "please reply to a merged-forward message; above 100 messages, nest merged forwards"
NoPromptFiles == "no prompt file found"
NoTestHtml == "test.html not found"
LlmFailed == "error while calling the LLM!"
PleaseWait == "LLM running, please wait (there is a reply as well if it fails)"

\* ---- the raw command text: a sequence of words.  A word is an option and
\* its argument: "--prompts", "--test-html", "--prompt=" with a name, or
\* plain text.
Word(opt, arg) == [opt |-> opt, arg |-> arg]

\* Lines 225 and 273: "--prompts" in message_text, "--test-html" in message_text.
HasFlag(message_text, flag) ==
    \E i \in 1..Len(message_text) : message_text[i].opt = flag

\* Line 311: re.search(r"--prompt=([\w\-\.]+)", message_text): the first hit.
prompt_match(message_text) ==
    LET hits == SelectSeq(message_text, LAMBDA w : w.opt = "--prompt=" /\ w.arg # "")
    IN  IF Len(hits) = 0 THEN [found |-> FALSE, name |-> ""]
        ELSE [found |-> TRUE, name |-> hits[1].arg]

NoPath == <<>>      \* custom_prompt_path = None

\* Lines 311-324: the path the override names.
custom_prompt_path(message_text, alias_map) ==
    LET m == prompt_match(message_text)
    IN  IF ~m.found THEN NoPath
        ELSE IF m.name \in DOMAIN alias_map THEN alias_map[m.name]
        ELSE PathIn(PromptsDir, IF EndsWithMd(m.name) THEN m.name ELSE m.name \o ".md")

\* Mutant of HasQuotedForward: any quoted message passes, whatever its first
\* segment is.
HasQuotedForward_anyreply(event) ==
    /\ event.reply.present
    /\ Len(event.reply.message) > 0

\* Lines 326-327: the request quotes a message whose first segment is a forward.
HasQuotedForward(event) ==
    /\ event.reply.present
    /\ Len(event.reply.message) > 0
    /\ event.reply.message[1].type = "forward"

\* Mutant of SelectPrompt: the trigger table is looked up before the override.
SelectPrompt_triggerfirst(custom, trigger, d) ==
    IF trigger \in DOMAIN commandToPromptFilePath THEN commandToPromptFilePath[trigger]
    ELSE IF custom # NoPath /\ PathExists(d, custom) THEN custom
    ELSE SYSTEM_PROMPT_ANA_PATH

\* Mutant of SelectPrompt: the override is used without the exists() check.
SelectPrompt_nocheck(custom, trigger, d) ==
    IF custom # NoPath THEN custom
    ELSE IF trigger \in DOMAIN commandToPromptFilePath THEN commandToPromptFilePath[trigger]
    ELSE SYSTEM_PROMPT_ANA_PATH

\* Lines 336-344: template selection.
SelectPrompt(custom, trigger, d) ==
    IF custom # NoPath /\ PathExists(d, custom) THEN custom
    ELSE IF trigger \in DOMAIN commandToPromptFilePath THEN commandToPromptFilePath[trigger]
    ELSE SYSTEM_PROMPT_ANA_PATH

\* ---- the text after "--prompt=": a sequence of pieces, each a run of the
\* characters of [\w\-\.] or one other character
MaxRawLen == 3
NameRuns == {"x", "nope", "how_to_say.md", ".", ".."}
Separators == {"/"}
RawArgs ==
    {raw \in UNION {[1..n -> NameRuns \cup Separators] : n \in 1..MaxRawLen} :
        \A i \in 1..(Len(raw) - 1) : raw[i] \in Separators \/ raw[i + 1] \in Separators}

\* Mutant of re_search_prompt_name: the group takes every character up to the
\* next blank.
re_search_prompt_name_greedy(raw) ==
    LET joined[n \in 0..Len(raw)] == IF n = 0 THEN "" ELSE joined[n - 1] \o raw[n]
    IN  joined[Len(raw)]

\* Line 311: the group ([\w\-\.]+) of the pattern: the run of name characters
\* that follows "--prompt=", "" when there is none (no match).
re_search_prompt_name(raw) ==
    IF Len(raw) = 0 THEN ""
    ELSE IF raw[1] \in Separators THEN "" ELSE raw[1]

\* ---- character counts, for final_md[:500]
LongBodyChars == 600
ListPreviewChars == 500
TokLen(tok) == IF tok = "long-body" THEN LongBodyChars ELSE Len(tok)

RECURSIVE TakeChars(_, _)
\* text[:n]; a token cut in the middle is kept as "(part of) token"
TakeChars(tokens, n) ==
    IF Len(tokens) = 0 \/ n <= 0 THEN <<>>
    ELSE IF TokLen(Head(tokens)) <= n
    THEN <<Head(tokens)>> \o TakeChars(Tail(tokens), n - TokLen(Head(tokens)))
    ELSE <<"(part of) " \o Head(tokens)>>

RECURSIVE Join(_, _)
\* sep.join(parts)
Join(parts, sep) ==
    IF Len(parts) = 0 THEN <<>>
    ELSE IF Len(parts) = 1 THEN parts[1]
    ELSE parts[1] \o sep \o Join(Tail(parts), sep)

\* Lines 242-251: one file of the template list.
ListEntry(d, name) ==
    IF d[name].readable
    THEN <<"# ", name, "\n", "\n">> \o d[name].text
    ELSE <<"## ", name, "\n", "\n", "read failed: ", "errno">>

\* Lines 240-252: final_md.
final_md_of(d) ==
    LET md_files == SortedMdFiles(d)
    IN  Join([i \in 1..Len(md_files) |-> ListEntry(d, md_files[i])],
             <<"\n", "\n", "---", "\n", "\n">>)

\* ---- the replies
\* Lines 328-329.
UsageMessage(event) == <<ReplySeg(event.message_id), MsgText(<<UsageHint>>)>>
\* Lines 236-237.
NoPromptFilesMessage(event) == <<ReplySeg(event.message_id), MsgText(<<NoPromptFiles>>)>>
\* Lines 255-257.
ListMessage(event, n, pic) ==
    <<ReplySeg(event.message_id),
      MsgText(<<"found ", ToString(n), " prompt files:", "\n">>), ImageSeg(pic)>>
\* Mutant of ListFallbackMessage: the whole list is sent as text.
ListFallbackMessage_whole(event, n, final_md) ==
    <<ReplySeg(event.message_id),
      MsgText(<<"found ", ToString(n), " prompt files, but the picture failed", "\n", "\n">>
              \o final_md \o <<"...">>)>>

\* Lines 261-262.
ListFallbackMessage(event, n, final_md) ==
    <<ReplySeg(event.message_id),
      MsgText(<<"found ", ToString(n), " prompt files, but the picture failed", "\n", "\n">>
              \o TakeChars(final_md, ListPreviewChars) \o <<"...">>)>>
\* Lines 278-279.
NoTestHtmlMessage(event) == <<ReplySeg(event.message_id), MsgText(<<NoTestHtml>>)>>
\* Lines 291-294.
HtmlMessage(event, pic220, pic96) ==
    <<ReplySeg(event.message_id), MsgText(<<"test.html rendered:", "\n">>),
      ImageSeg(pic220), ImageSeg(pic96)>>
\* Lines 298-299.
HtmlFallbackMessage(event) ==
    <<ReplySeg(event.message_id), MsgText(<<"picture failed: ", "error">>)>>
\* Lines 303-304.
HtmlFailedMessage(event) ==
    <<ReplySeg(event.message_id), MsgText(<<"processing failed: ", "error">>)>>
\* Lines 366-368.
PreviewMessage(event, prompt_filename, pic) ==
    <<ReplySeg(event.message_id),
      MsgText(<<PleaseWait, "\n", "\n", "system prompt used (", prompt_filename, "):", "\n">>),
      ImageSeg(pic)>>
\* Lines 373-374.
PreviewFallbackMessage(event, prompt_filename) ==
    <<ReplySeg(event.message_id),
      MsgText(<<PleaseWait, "\n", "prompt used: ", prompt_filename>>)>>
\* Lines 409-414.
ResultMessage(event, prompt_filename, pic) ==
    <<ReplySeg(event.message_id),
      MsgText(<<"\n", "prompt file used: ", prompt_filename, "\n">>), ImageSeg(pic)>>

\* Mutant of ResultFallbackMessage: only the head of the result is sent
\* (as the template list does with final_md).
ResultFallbackMessage_cut(event, prompt_filename, llm_result) ==
    <<ReplySeg(event.message_id), MsgText(TakeChars(<<llm_result>>, 1)),
      MsgText(<<"\n", "(prompt: ", prompt_filename, ")">>)>>

\* Lines 421-423.
ResultFallbackMessage(event, prompt_filename, llm_result) ==
    <<ReplySeg(event.message_id), MsgText(<<llm_result>>),
      MsgText(<<"\n", "(prompt: ", prompt_filename, ")">>)>>

\* Mutant of LlmErrorMessage: the notice carries a picture of the error.
LlmErrorMessage_pic(event) ==
    <<ReplySeg(event.message_id), MsgText(<<LlmFailed>>), ImageSeg(Pic(<<LlmFailed>>, 900))>>

\* Lines 428-429.
LlmErrorMessage(event) == <<ReplySeg(event.message_id), MsgText(<<LlmFailed>>)>>

\* ---- calls of the collaborators, with how each ended
\* ("pending" while the handler awaits it, then "returned" or "raised")
MdToPicCall(md) ==
    [api |-> "md_to_pic", args |-> [md |-> md, max_width |-> 900], outcome |-> "pending"]
HtmlToPicCall(html, width) ==
    [api |-> "html_to_pic", args |-> [html |-> html, max_width |-> width],
     outcome |-> "pending"]
\* Mutant of CompletionCall: a short-reply directive is appended to the system
\* turn.
CompletionCall_short(system_prompt, usersChatText, outcome) ==
    [api |-> "chat.completions.create",
     args |-> <<[role |-> "system", content |-> system_prompt \o <<"\n", "reply briefly">>],
                [role |-> "user", content |-> usersChatText]>>,
     outcome |-> outcome]

CompletionCall(system_prompt, usersChatText, outcome) ==
    [api |-> "chat.completions.create",
     args |-> <<[role |-> "system", content |-> system_prompt],
                [role |-> "user", content |-> usersChatText]>>,
     outcome |-> outcome]

RECURSIVE json_dumps(_), json_items(_)
\* Line 381: json.dumps(value, ensure_ascii=False), for strings that need no escape.
json_items(l) ==
    IF Len(l) = 0 THEN ""
    ELSE IF Len(l) = 1 THEN json_dumps(l[1])
    ELSE json_dumps(l[1]) \o ", " \o json_items(Tail(l))
json_dumps(value) ==
    IF value.t = "str" THEN "\"" \o value.v \o "\""
    ELSE "[" \o json_items(value.v) \o "]"

RECURSIVE messageToSimpleRaises(_), segmentsRaise(_)
\* Line 457: message["data"]["content"] is a KeyError when a nested forward
\* carries no content.
segmentsRaise(segs) ==
    IF Len(segs) = 0 THEN FALSE
    ELSE \/ /\ Head(segs).type = "forward"
            /\ \/ "content" \notin DOMAIN Head(segs).data
               \/ messageToSimpleRaises(Head(segs).data.content)
         \/ segmentsRaise(Tail(segs))
messageToSimpleRaises(messages) ==
    IF Len(messages) = 0 THEN FALSE
    ELSE segmentsRaise(Head(messages).message) \/ messageToSimpleRaises(Tail(messages))

\* Lines 377-378: forward_content = event.reply.message[0].data.get("content")
\* and messageToSimple(forward_content).  With no content key forward_content
\* is None and the loop over it is a TypeError.
TranscriptRaises(event) ==
    \/ ~HasQuotedForward(event)
    \/ "content" \notin DOMAIN event.reply.message[1].data
    \/ messageToSimpleRaises(event.reply.message[1].data.content)

\* Lines 378-381: usersChatText.
usersChatText_of(event) ==
    json_dumps(JList(messageToSimple(event.reply.message[1].data.content)))

\* ---- the inputs the model draws
MaxMessageId == 2
MessageIds == 1..MaxMessageId
InputKeywords == {"ana", "caipan"}
LLMResults == {"verdict"}

DocJudge == <<"---", "\n", "alias: [al]", "\n", "---", "\n", "judge-body">>
DocHow == <<"long-body">>
DocHtml == <<"<html>">>

FileStates(name) ==
    CASE name = "alignment_prompt.md" -> {Absent, Unreadable, File(DocJudge)}
      [] name = "how_to_say.md" -> {Absent, File(DocHow)}
      [] OTHER -> {Absent, File(DocHtml)}

ExampleContent ==
    <<Bundle("Alice", <<TextSeg("hi"), ForwardSeg(<<Bundle("Bob", <<TextSeg("yo")>>)>>)>>)>>
\* a forward segment as plain OneBot v11 delivers it: an id, no content
ForwardById == [type |-> "forward", data |-> [id |-> "7"]]

InputTexts ==
    { <<>>,
      <<Word("--prompts", "")>>,
      <<Word("--test-html", "")>>,
      <<Word("--prompt=", "al")>>,
      <<Word("--prompt=", "how_to_say")>>,
      <<Word("--prompt=", "nope")>>,
      <<Word("--prompts", ""), Word("--prompt=", "al")>> }

InputReplies ==
    { [present |-> FALSE, message |-> <<>>],
      [present |-> TRUE, message |-> <<TextSeg("hi")>>],
      [present |-> TRUE, message |-> <<ForwardById>>],
      [present |-> TRUE, message |-> <<ForwardSeg(ExampleContent)>>],
      [present |-> TRUE, message |-> <<ForwardSeg(<<Bundle("Bob", <<ForwardById>>)>>)>>] }

NoLoc ==
    [prompt_to_use_path |-> NoPath, system_prompt |-> <<>>, final_md |-> <<>>,
     n_files |-> 0, html_content |-> <<>>, llm_result |-> ""]
NoReq == [active |-> FALSE]

\* ---- logger.error calls
ParseErrors(d, names) ==
    SelectSeq([i \in 1..Len(names) |->
                  IF parse_yaml_front_matter(d[names[i]]).raised
                  THEN "parse_yaml_front_matter" ELSE ""],
              LAMBDA x : x # "")
ReadErrors(d, names) ==
    SelectSeq([i \in 1..Len(names) |->
                  IF d[names[i]].readable THEN "" ELSE "read file"],
              LAMBDA x : x # "")
LoadErrors(d, path) ==
    IF ~(FileAt(d, path).exists /\ FileAt(d, path).readable)
    THEN <<"load_prompt_content">>
    ELSE IF parse_yaml_front_matter(FileAt(d, path)).raised
    THEN <<"parse_yaml_front_matter">> ELSE <<>>

Returned(message, alias_map, errs) ==
    [pc |-> "returned", sent |-> <<message>>, calls |-> <<>>, loc |-> NoLoc,
     alias_map |-> alias_map, errlog |-> errs]
Awaiting(where, call, locals, alias_map, errs) ==
    [pc |-> where, sent |-> <<>>, calls |-> <<call>>, loc |-> locals,
     alias_map |-> alias_map, errlog |-> errs]

\* Lines 225-270, up to the await of md_to_pic: the --prompts flag.
EntryListTemplates(event, d) ==
    LET refreshed == load_prompt_aliases(d)
        md_files == SortedMdFiles(d)
        final_md == final_md_of(d)
        errs == ParseErrors(d, md_files) \o ReadErrors(d, md_files)
    IN  IF Len(md_files) = 0
        THEN Returned(NoPromptFilesMessage(event), refreshed, errs)
        ELSE Awaiting("list_pic", MdToPicCall(final_md),
                      [NoLoc EXCEPT !.final_md = final_md, !.n_files = Len(md_files)],
                      refreshed, errs)

\* Lines 273-307, up to the first await of html_to_pic: the --test-html flag.
EntryTestHtml(event, d, alias_map) ==
    LET file == d["test.html"]
    IN  IF ~file.exists THEN Returned(NoTestHtmlMessage(event), alias_map, <<>>)
        ELSE IF ~file.readable
        THEN Returned(HtmlFailedMessage(event), alias_map, <<"test-html">>)
        ELSE Awaiting("html_pic220", HtmlToPicCall(file.text, 1800),
                      [NoLoc EXCEPT !.html_content = file.text], alias_map, <<>>)

\* Mutant of EntryAnalyse: the registry is refreshed before the override is
\* resolved.
EntryAnalyse_refresh(event, trigger, d, alias_map) ==
    LET refreshed == load_prompt_aliases(d)
        custom == custom_prompt_path(event.text, refreshed)
        prompt_to_use_path == SelectPrompt(custom, trigger, d)
        system_prompt == load_prompt_content(d, prompt_to_use_path)
    IN  IF ~HasQuotedForward(event)
        THEN Returned(UsageMessage(event), refreshed, <<>>)
        ELSE Awaiting("preview_pic", MdToPicCall(system_prompt),
                      [NoLoc EXCEPT !.prompt_to_use_path = prompt_to_use_path,
                                    !.system_prompt = system_prompt],
                      refreshed, LoadErrors(d, prompt_to_use_path))

\* Lines 309-365, up to the await of md_to_pic: override, validation,
\* template selection, load.
EntryAnalyse(event, trigger, d, alias_map) ==
    LET custom == custom_prompt_path(event.text, alias_map)
        prompt_to_use_path == SelectPrompt(custom, trigger, d)
        system_prompt == load_prompt_content(d, prompt_to_use_path)
    IN  IF ~HasQuotedForward(event)
        THEN Returned(UsageMessage(event), alias_map, <<>>)
        ELSE Awaiting("preview_pic", MdToPicCall(system_prompt),
                      [NoLoc EXCEPT !.prompt_to_use_path = prompt_to_use_path,
                                    !.system_prompt = system_prompt],
                      alias_map, LoadErrors(d, prompt_to_use_path))

\* Mutant of Entry: the input is validated before the flags are looked at.
Entry_validatefirst(event, trigger, d, alias_map) ==
    IF ~HasQuotedForward(event) THEN Returned(UsageMessage(event), alias_map, <<>>)
    ELSE IF HasFlag(event.text, "--prompts") THEN EntryListTemplates(event, d)
    ELSE IF HasFlag(event.text, "--test-html") THEN EntryTestHtml(event, d, alias_map)
    ELSE EntryAnalyse(event, trigger, d, alias_map)

\* Lines 222-365: the handler from its start to its first await or return.
Entry(event, trigger, d, alias_map) ==
    IF HasFlag(event.text, "--prompts") THEN EntryListTemplates(event, d)
    ELSE IF HasFlag(event.text, "--test-html") THEN EntryTestHtml(event, d, alias_map)
    ELSE EntryAnalyse(event, trigger, d, alias_map)

\* the events the model gives to the handler: private, or in group 1
HandlerEvents == {e \in Events : e.kind = "private" \/ (e.kind = "group" /\ e.group_id = 1)}

\* The matcher dispatches an event: the rule passes and the handler runs to
\* its first await.  The event is drawn from the given sets.
StartFrom(s, bases, keywords, texts, replies) ==
    /\ pc[s] = "idle"
    /\ \E base \in bases, trigger \in keywords, mid \in MessageIds,
          text \in texts, reply \in replies :
         /\ check_user_permission(base, driver_config)
         /\ \A o \in Slots \ {s} :
                IF pc[o] \in {"idle", "returned"} THEN TRUE
                ELSE req[o].event.message_id # mid
         /\ LET event == base @@ [message_id |-> mid, text |-> text, reply |-> reply]
                r == Entry(event, trigger, disk, PROMPT_ALIAS_MAP)
            IN  /\ req' = [req EXCEPT ![s] = [active |-> TRUE, event |-> event,
                                              trigger |-> trigger]]
                /\ pc' = [pc EXCEPT ![s] = r.pc]
                /\ sent' = [sent EXCEPT ![s] = r.sent]
                /\ calls' = [calls EXCEPT ![s] = r.calls]
                /\ loc' = [loc EXCEPT ![s] = r.loc]
                /\ errlog' = [errlog EXCEPT ![s] = r.errlog]
                /\ PROMPT_ALIAS_MAP' = r.alias_map
    /\ UNCHANGED <<disk, flatVars, gateVars, docVars>>

Start(s) == StartFrom(s, HandlerEvents, InputKeywords, InputTexts, InputReplies)

\* Lines 311-344 on their own: an override is resolved against the registry
\* and the directory as they are.
ResolveOverride ==
    /\ \E raw \in RawArgs, trigger \in {"ana"} :
         LET message_text == <<Word("--prompt=", re_search_prompt_name(raw))>>
             custom == custom_prompt_path(message_text, PROMPT_ALIAS_MAP)
         IN  parsed' = [done |-> TRUE, call |-> "resolve", raw |-> raw,
                        trigger |-> trigger,
                        custom_prompt_path |-> custom,
                        prompt_to_use_path |-> SelectPrompt(custom, trigger, disk)]
    /\ UNCHANGED <<disk, PROMPT_ALIAS_MAP, pc, req, loc, sent, calls, errlog,
                   flatVars, gateVars>>

\* ---- the requests of two users at a time
ConcEvents == {[kind |-> "private", user_id |-> 1]}
ConcKeywords == {"ana"}
ConcTexts ==
    { <<>>,
      <<Word("--prompts", "")>>,
      <<Word("--test-html", "")>>,
      <<Word("--prompt=", "x")>> }
ConcReplies ==
    { [present |-> FALSE, message |-> <<>>],
      [present |-> TRUE, message |-> <<ForwardSeg(ExampleContent)>>] }

StartConc(s) == StartFrom(s, ConcEvents, ConcKeywords, ConcTexts, ConcReplies)

Send(s, message) == sent' = [sent EXCEPT ![s] = Append(@, message)]
Return(s) == pc' = [pc EXCEPT ![s] = "returned"]
LogError(s, tag) == errlog' = [errlog EXCEPT ![s] = Append(@, tag)]
\* Mutant of Uncaught: the handler has no outer except, the exception leaves
\* it.
Uncaught_escapes(s) ==
    /\ pc' = [pc EXCEPT ![s] = "crashed"]
    /\ UNCHANGED errlog

\* Lines 222 and 431-434: an exception that no inner try catches reaches the
\* outer except Exception, which logs it; the handler then returns.
Uncaught(s) ==
    /\ LogError(s, "handle_ana_command")
    /\ Return(s)

\* the awaited call ends
Ended(s, outcome) == [calls[s] EXCEPT ![Len(calls[s])].outcome = outcome]
CallEnds(s, outcome) == calls' = [calls EXCEPT ![s] = Ended(s, outcome)]
frame == <<disk, PROMPT_ALIAS_MAP, req, flatVars, gateVars, docVars>>

\* Lines 253-270: md_to_pic of the template list returns or raises.
ListRender(s) ==
    /\ pc[s] = "list_pic"
    /\ \/ /\ CallEnds(s, "returned")
          /\ Send(s, ListMessage(req[s].event, loc[s].n_files, Pic(loc[s].final_md, 900)))
          /\ UNCHANGED errlog
       \/ /\ CallEnds(s, "raised")
          /\ Send(s, ListFallbackMessage(req[s].event, loc[s].n_files, loc[s].final_md))
          /\ LogError(s, "md_to_pic")
    /\ Return(s)
    /\ UNCHANGED <<loc, frame>>

\* Lines 288-300: the first html_to_pic returns or raises.
HtmlRender220(s) ==
    /\ pc[s] = "html_pic220"
    /\ \/ /\ pc' = [pc EXCEPT ![s] = "html_pic96"]
          /\ calls' = [calls EXCEPT ![s] =
                          Append(Ended(s, "returned"), HtmlToPicCall(loc[s].html_content, 800))]
          /\ UNCHANGED <<sent, errlog>>
       \/ /\ CallEnds(s, "raised")
          /\ Send(s, HtmlFallbackMessage(req[s].event))
          /\ LogError(s, "html_to_pic")
          /\ Return(s)
    /\ UNCHANGED <<loc, frame>>

\* Lines 290-307: the second html_to_pic returns or raises.
HtmlRender96(s) ==
    /\ pc[s] = "html_pic96"
    /\ \/ /\ CallEnds(s, "returned")
          /\ Send(s, HtmlMessage(req[s].event, Pic(loc[s].html_content, 1800),
                                 Pic(loc[s].html_content, 800)))
          /\ UNCHANGED errlog
       \/ /\ CallEnds(s, "raised")
          /\ Send(s, HtmlFallbackMessage(req[s].event))
          /\ LogError(s, "html_to_pic")
    /\ Return(s)
    /\ UNCHANGED <<loc, frame>>

\* Mutant of PreviewRender: a failed render of the preview ends the request
\* after the plain-text reply.
PreviewRender_abort(s) ==
    /\ pc[s] = "preview_pic"
    /\ \/ /\ CallEnds(s, "returned")
          /\ Send(s, PreviewMessage(req[s].event, PathName(loc[s].prompt_to_use_path),
                                    Pic(loc[s].system_prompt, 900)))
          /\ UNCHANGED errlog
          /\ pc' = [pc EXCEPT ![s] = "preview_sent"]
       \/ /\ CallEnds(s, "raised")
          /\ Send(s, PreviewFallbackMessage(req[s].event,
                                            PathName(loc[s].prompt_to_use_path)))
          /\ LogError(s, "md_to_pic")
          /\ Return(s)
    /\ UNCHANGED <<loc, frame>>

\* Lines 363-375: md_to_pic of the system prompt returns or raises; the
\* preview is sent either way.
PreviewRender(s) ==
    /\ pc[s] = "preview_pic"
    /\ \/ /\ CallEnds(s, "returned")
          /\ Send(s, PreviewMessage(req[s].event, PathName(loc[s].prompt_to_use_path),
                                    Pic(loc[s].system_prompt, 900)))
          /\ UNCHANGED errlog
       \/ /\ CallEnds(s, "raised")
          /\ Send(s, PreviewFallbackMessage(req[s].event,
                                            PathName(loc[s].prompt_to_use_path)))
          /\ LogError(s, "md_to_pic")
    /\ pc' = [pc EXCEPT ![s] = "preview_sent"]
    /\ UNCHANGED <<loc, frame>>

\* Mutant of Complete: a failed completion call is made once more before the
\* failure notice.
Complete_retry(s) ==
    /\ pc[s] = "preview_sent"
    /\ IF TranscriptRaises(req[s].event)
       THEN /\ Uncaught(s)
            /\ UNCHANGED <<sent, calls, loc>>
       ELSE LET system_prompt == loc[s].system_prompt
                usersChatText == usersChatText_of(req[s].event)
            IN  \/ /\ calls' = [calls EXCEPT ![s] =
                                   Append(Append(@, CompletionCall(system_prompt,
                                                                   usersChatText, "raised")),
                                          CompletionCall(system_prompt, usersChatText,
                                                         "raised"))]
                   /\ Send(s, LlmErrorMessage(req[s].event))
                   /\ LogError(s, "llm")
                   /\ Return(s)
                   /\ UNCHANGED loc
                \/ \E llm_result \in LLMResults :
                   /\ calls' = [calls EXCEPT ![s] =
                                   Append(Append(@, CompletionCall(system_prompt,
                                                                   usersChatText, "returned")),
                                          MdToPicCall(<<llm_result>>))]
                   /\ loc' = [loc EXCEPT ![s].llm_result = llm_result]
                   /\ pc' = [pc EXCEPT ![s] = "result_pic"]
                   /\ UNCHANGED <<sent, errlog>>
    /\ UNCHANGED frame

\* Lines 377-406 and 426-434: after the preview is sent, the transcript is
\* built and the completion API is called.  An exception of lines 377-381 is
\* caught by the except of line 431, which logs and sends nothing; one of
\* lines 384-397 by the except of line 426.
Complete(s) ==
    /\ pc[s] = "preview_sent"
    /\ IF TranscriptRaises(req[s].event)
       THEN /\ Uncaught(s)
            /\ UNCHANGED <<sent, calls, loc>>
       ELSE LET system_prompt == loc[s].system_prompt
                usersChatText == usersChatText_of(req[s].event)
            IN  \/ /\ calls' = [calls EXCEPT ![s] =
                                   Append(@, CompletionCall(system_prompt, usersChatText,
                                                            "raised"))]
                   /\ Send(s, LlmErrorMessage(req[s].event))
                   /\ LogError(s, "llm")
                   /\ Return(s)
                   /\ UNCHANGED loc
                \/ \E llm_result \in LLMResults :
                   /\ calls' = [calls EXCEPT ![s] =
                                   Append(Append(@, CompletionCall(system_prompt,
                                                                   usersChatText, "returned")),
                                          MdToPicCall(<<llm_result>>))]
                   /\ loc' = [loc EXCEPT ![s].llm_result = llm_result]
                   /\ pc' = [pc EXCEPT ![s] = "result_pic"]
                   /\ UNCHANGED <<sent, errlog>>
    /\ UNCHANGED frame

\* Lines 401-424: md_to_pic of the result returns or raises.
ResultRender(s) ==
    /\ pc[s] = "result_pic"
    /\ \/ /\ CallEnds(s, "returned")
          /\ Send(s, ResultMessage(req[s].event, PathName(loc[s].prompt_to_use_path),
                                   Pic(<<loc[s].llm_result>>, 900)))
          /\ UNCHANGED errlog
       \/ /\ CallEnds(s, "raised")
          /\ Send(s, ResultFallbackMessage(req[s].event,
                                           PathName(loc[s].prompt_to_use_path),
                                           loc[s].llm_result))
          /\ LogError(s, "md_to_pic")
    /\ Return(s)
    /\ UNCHANGED <<loc, frame>>

\* The handler has returned (the finally of line 433): its frame is dropped.
Release(s) ==
    /\ pc[s] = "returned"
    /\ pc' = [pc EXCEPT ![s] = "idle"]
    /\ req' = [req EXCEPT ![s] = NoReq]
    /\ loc' = [loc EXCEPT ![s] = NoLoc]
    /\ sent' = [sent EXCEPT ![s] = <<>>]
    /\ calls' = [calls EXCEPT ![s] = <<>>]
    /\ errlog' = [errlog EXCEPT ![s] = <<>>]
    /\ UNCHANGED <<disk, PROMPT_ALIAS_MAP, flatVars, gateVars, docVars>>

\* The operator adds, removes or replaces a file of the prompts directory.
DiskChange ==
    /\ \E name \in FileNames :
         \E state \in FileStates(name) :
            /\ state # disk[name]
            /\ disk' = [disk EXCEPT ![name] = state]
    /\ UNCHANGED <<PROMPT_ALIAS_MAP, pc, req, loc, sent, calls, errlog, flatVars, gateVars, docVars>>

\* ---- the directory while two requests are served: the operator edits the
\* second template, which may declare the alias "x"; the other files stay
ConcEdited == {"how_to_say.md"}
ConcFileStates(name) ==
    CASE name = "alignment_prompt.md" -> {File(DocJudge)}
      [] name = "how_to_say.md" -> {Absent, File(DocHow), File(DocAliasX)}
      [] OTHER -> {File(DocHtml)}
ConcDisks ==
    {d \in [FileNames -> UNION {ConcFileStates(n) : n \in FileNames}] :
        \A n \in FileNames : d[n] \in ConcFileStates(n)}
DiskChangeConc ==
    /\ \E name \in ConcEdited :
         \E state \in ConcFileStates(name) :
            /\ state # disk[name]
            /\ disk' = [disk EXCEPT ![name] = state]
    /\ UNCHANGED <<PROMPT_ALIAS_MAP, pc, req, loc, sent, calls, errlog, flatVars, gateVars, docVars>>

HandlerIdle ==
    /\ pc = [s \in Slots |-> "idle"]
    /\ req = [s \in Slots |-> NoReq]
    /\ loc = [s \in Slots |-> NoLoc]
    /\ sent = [s \in Slots |-> <<>>]
    /\ calls = [s \in Slots |-> <<>>]
    /\ errlog = [s \in Slots |-> <<>>]

\* Line 143: the registry is built when the module is loaded.
HandlerInit ==
    /\ HandlerIdle
    /\ disk \in [FileNames -> UNION {FileStates(n) : n \in FileNames}]
    /\ \A n \in FileNames : disk[n] \in FileStates(n)
    /\ PROMPT_ALIAS_MAP = load_prompt_aliases(disk)

NoDisk ==
    /\ disk = [n \in FileNames |-> Absent]
    /\ PROMPT_ALIAS_MAP = EmptyDict

(***************************************************************************)
(* The transcript flattener: what the claims say of it.                    *)
(***************************************************************************)
RECURSIVE PairsOfBundles(_)
SegPairs(nick, segs) == [k \in 1..Len(segs) |-> [sender |-> nick, seg |-> segs[k]]]
\* every sub-message of every bundle, in input order, with its bundle's sender
PairsOfBundles(ms) ==
    IF Len(ms) = 0 THEN <<>>
    ELSE SegPairs(Head(ms).sender.nickname, Head(ms).message) \o PairsOfBundles(Tail(ms))
IsTextOrForward(p) == p.seg.type \in {"text", "forward"}
IsForwardPair(p) == p.seg.type = "forward"
IsGroupEntry(e) == e.t = "list"

RECURSIVE OrderAndNesting(_, _)
OrderAndNesting(ms, out) ==
    LET rel == SelectSeq(PairsOfBundles(ms), IsTextOrForward)
    IN  /\ Len(out) = Len(rel)
        /\ \A k \in 1..Len(rel) :
             IF rel[k].seg.type = "text"
             THEN out[k] = JStr(rel[k].sender \o ": " \o rel[k].seg.data.text)
             ELSE /\ out[k].t = "list"
                  /\ Len(out[k].v) = 3
                  /\ out[k].v[1] = JStr(rel[k].sender)
                  /\ out[k].v[2] = JStr(ForwardMarker)
                  /\ out[k].v[3].t = "list"
                  /\ OrderAndNesting(rel[k].seg.data.content, out[k].v[3].v)

RECURSIVE OneEntryPerTextOrForward(_, _)
OneEntryPerTextOrForward(ms, out) ==
    LET all == PairsOfBundles(ms)
        fwd == SelectSeq(all, IsForwardPair)
        grp == SelectSeq(out, IsGroupEntry)
    IN  /\ Len(out) = Len(SelectSeq(all, IsTextOrForward))
        /\ Len(grp) = Len(fwd)
        /\ \A j \in 1..Len(fwd) :
             /\ Len(grp[j].v) = 3
             /\ grp[j].v[3].t = "list"
             /\ OneEntryPerTextOrForward(fwd[j].seg.data.content, grp[j].v[3].v)

\* C9: messageToSimple preserves order and nesting: going through the bundles
\* and their sub-messages in input order, a text sub-message of a bundle with
\* sender S yields the entry "S: text" and a forwarded sub-message yields one
\* group [S, marker, flatten(nested content)], at every level; nested entries
\* are never spliced into the outer list.
C9_OrderAndNesting ==
    flat.done => OrderAndNesting(flat.messages, flat.simple)

\* C9 witness: the two-level example, Alice{text hi, forward{Bob{text yo}}},
\* has been flattened to ["Alice: hi", ["Alice", marker, ["Bob: yo"]]].
C9_Witness ==
    /\ flat.done
    /\ flat.messages =
         <<Bundle("Alice", <<TextSeg("hi"),
                             ForwardSeg(<<Bundle("Bob", <<TextSeg("yo")>>)>>)>>)>>
    /\ flat.simple =
         <<JStr("Alice: hi"),
           JList(<<JStr("Alice"), JStr(ForwardMarker), JList(<<JStr("Bob: yo")>>)>>)>>

\* C10: a sub-message that is neither text nor forwarded contributes no entry,
\* at every nesting level: each level of the output has exactly one entry per
\* text-or-forwarded sub-message of that level's bundles.
C10_OtherTypesSkipped ==
    flat.done => OneEntryPerTextOrForward(flat.messages, flat.simple)

\* C10 witness: an image at the top level and an image inside a nested
\* forward have both been dropped.
C10_Witness ==
    /\ flat.done
    /\ flat.messages =
         <<Bundle("Alice", <<OtherSeg("image"),
                             ForwardSeg(<<Bundle("Bob", <<OtherSeg("image")>>)>>)>>)>>
    /\ flat.simple =
         <<JList(<<JStr("Alice"), JStr(ForwardMarker), JList(<<>>)>>)>>

\* the string entries of a result of messageToSimple, depth first and left to
\* right: an entry that is a string stands for itself, a group [sender,
\* marker, nested] stands for the string entries of nested
RECURSIVE StringEntries(_)
StringEntries(out) ==
    IF Len(out) = 0 THEN <<>>
    ELSE (IF Head(out).t = "str"
             THEN <<Head(out)>>
             ELSE StringEntries(Head(out).v[3].v))
         \o StringEntries(Tail(out))

\* C30: the two flatteners agree on the leaves: for every forward tree the
\* flat list of extractListMessage is the depth-first, left-to-right sequence
\* of the string entries of the nested result of messageToSimple, the sender
\* and the marker of every group left out, each entry with the same speaker
\* label in both.
C30_FlattenersAgree ==
    flat.done => flat.list = StringEntries(flat.simple)

\* C30 witness: Alice{forward{Bob{text yo}}, text hi} has been flattened: the
\* nested result holds a group before Alice's own entry, and the flat list is
\* Bob's entry followed by Alice's.
C30_Witness ==
    /\ flat.done
    /\ flat.messages =
         <<Bundle("Alice", <<ForwardSeg(<<Bundle("Bob", <<TextSeg("yo")>>)>>),
                             TextSeg("hi")>>)>>
    /\ flat.simple =
         <<JList(<<JStr("Alice"), JStr(ForwardMarker), JList(<<JStr("Bob: yo")>>)>>),
           JStr("Alice: hi")>>
    /\ flat.list = <<JStr("Bob: yo"), JStr("Alice: hi")>>

(***************************************************************************)
(* The access gate: what the claims say of it.                             *)
(***************************************************************************)
\* C7 as stated (counterexample): a message event is accepted if and only if
\* the requester is in the user allow-list, or the channel is a group whose id
\* is in the configured group allow-list.
C7_Original ==
    (gate.seen /\ gate.event.kind \in {"private", "group"}) =>
        (gate.ana <=>
            \/ gate.event.user_id \in driver_config.ANA_USER_ID_ALLOW_LIST
            \/ /\ gate.event.kind = "group"
               /\ gate.event.group_id \in driver_config.GROUP_ID_ALLOW_LIST)

\* C7 amended: the gate accepts exactly the private and group message events
\* whose requester id is in the user allow-list; the channel id plays no part.
C7_UserListOnly ==
    gate.seen =>
        (gate.ana <=>
            /\ gate.event.kind \in {"private", "group"}
            /\ gate.event.user_id \in driver_config.ANA_USER_ID_ALLOW_LIST)

\* C7 witness: a requester outside the user allow-list, speaking in a group the
\* operator listed, has been rejected.
C7_Witness ==
    /\ gate.seen
    /\ gate.event.kind = "group"
    /\ gate.event.group_id \in driver_config.GROUP_ID_ALLOW_LIST
    /\ gate.event.user_id \notin driver_config.ANA_USER_ID_ALLOW_LIST
    /\ driver_config.ANA_USER_ID_ALLOW_LIST # {}
    /\ ~gate.ana

\* C8: with an empty allow-list the gate returns false for every event, a
\* private message, a group message or any other event, in both plugins.
C8_EmptyDeniesAll ==
    gate.seen =>
        /\ (driver_config.ANA_USER_ID_ALLOW_LIST = {} => ~gate.ana)
        /\ (driver_config.JUSTICE_USER_ID_ALLOW_LIST = {} => ~gate.justice)

\* C8 witness: all lists empty, a group message event has been rejected by
\* both rules.
C8_Witness ==
    /\ gate.seen
    /\ driver_config.ANA_USER_ID_ALLOW_LIST = {}
    /\ driver_config.JUSTICE_USER_ID_ALLOW_LIST = {}
    /\ driver_config.GROUP_ID_ALLOW_LIST = {}
    /\ gate.event.kind = "group"
    /\ ~gate.ana /\ ~gate.justice

(***************************************************************************)
(* The command handler: what the claims say of it.                         *)
(***************************************************************************)
\* The request quotes a message whose first element is a forwarded bundle.
QuotesForward(e) ==
    /\ e.reply.present
    /\ Len(e.reply.message) > 0
    /\ e.reply.message[1].type = "forward"
\* The raw text carries the flag.
Carries(e, flag) == \E i \in 1..Len(e.text) : e.text[i].opt = flag
CarriesDispatchFlag(e) == Carries(e, "--prompts") \/ Carries(e, "--test-html")
\* The request reaches input validation and passes it.
ValidatedEvent(e) == QuotesForward(e) /\ ~CarriesDispatchFlag(e)

HasImageSegment(m) == \E i \in 1..Len(m) : m[i].type = "image"
IsProgress(m) ==
    \E i \in 1..Len(m) :
        /\ m[i].type = "text"
        /\ Len(m[i].data.text) > 0
        /\ m[i].data.text[1] = PleaseWait
IsFailureNotice(m) ==
    \E i \in 1..Len(m) : m[i].type = "text" /\ m[i].data.text = <<LlmFailed>>
IsUsageHint(m, e) ==
    m = <<[type |-> "reply", data |-> [id |-> e.message_id]],
          [type |-> "text", data |-> [text |-> <<UsageHint>>]]>>
\* the whole result r is in a text segment of m
TextCarries(m, r) ==
    \E i \in 1..Len(m) :
        /\ m[i].type = "text"
        /\ \E k \in 1..Len(m[i].data.text) : m[i].data.text[k] = r
\* m is a picture of the whole result r
PictureCarries(m, r) ==
    \E i \in 1..Len(m) : m[i].type = "image" /\ m[i].data.file.rendered = <<r>>
\* any part of a result is in m
CarriesSomeResult(m) ==
    \E r \in LLMResults :
        \/ TextCarries(m, r) \/ PictureCarries(m, r)
        \/ TextCarries(m, "(part of) " \o r)

CompletionCalls(s) ==
    {i \in 1..Len(calls[s]) : calls[s][i].api = "chat.completions.create"}
CompletionFailed(s) == \E i \in CompletionCalls(s) : calls[s][i].outcome = "raised"
\* the completion call returned and the render of its result raised
ResultRenderFailed(s) ==
    \E i \in CompletionCalls(s) :
        /\ calls[s][i].outcome = "returned"
        /\ i < Len(calls[s])
        /\ calls[s][i + 1].api = "md_to_pic"
        /\ calls[s][i + 1].outcome = "raised"

\* C1 (as the claim states it): a request that passes input validation ends
\* with exactly two replies, the progress message and then one result or
\* error message, whichever later step fails.
C1_TwoRepliesWhateverFails ==
    \A s \in Slots :
        IF pc[s] = "returned" /\ req[s].active
        THEN ValidatedEvent(req[s].event) =>
                /\ Len(sent[s]) = 2
                /\ IsProgress(sent[s][1])
                /\ \/ IsFailureNotice(sent[s][2])
                   \/ CarriesSomeResult(sent[s][2])
        ELSE TRUE

\* A validated request has returned after the progress message alone: the
\* transcript could not be built from the quoted forward.
C1_Witness ==
    \E s \in Slots :
        /\ pc[s] = "returned" /\ req[s].active
        /\ ValidatedEvent(req[s].event)
        /\ Len(sent[s]) = 1
        /\ IsProgress(sent[s][1])
        /\ "content" \notin DOMAIN req[s].event.reply.message[1].data

\* C2 (as the claim states it): a request with no quoted forward gets exactly
\* one reply, the usage hint, and calls neither the completion API nor the
\* renderer, whatever flags its text carries.
C2_Original ==
    \A s \in Slots :
        IF req[s].active
        THEN ~QuotesForward(req[s].event) =>
                /\ pc[s] = "returned"
                /\ Len(sent[s]) = 1
                /\ IsUsageHint(sent[s][1], req[s].event)
                /\ calls[s] = <<>>
        ELSE TRUE

\* C2 (amended): a request with no quoted forward whose text carries neither
\* the list-templates flag nor the test-render flag gets exactly one reply,
\* the usage hint, and calls neither the completion API nor the renderer.
C2_UsageHintWithoutDispatchFlag ==
    \A s \in Slots :
        IF req[s].active
        THEN (~QuotesForward(req[s].event) /\ ~CarriesDispatchFlag(req[s].event)) =>
                /\ pc[s] = "returned"
                /\ Len(sent[s]) = 1
                /\ IsUsageHint(sent[s][1], req[s].event)
                /\ calls[s] = <<>>
        ELSE TRUE

\* A request that quotes a message which is not a forward, with an override in
\* its text, has been answered with the usage hint.
C2_Witness ==
    \E s \in Slots :
        /\ req[s].active /\ pc[s] = "returned"
        /\ req[s].event.reply.present
        /\ ~QuotesForward(req[s].event)
        /\ Carries(req[s].event, "--prompt=")
        /\ Len(sent[s]) = 1
        /\ IsUsageHint(sent[s][1], req[s].event)

\* The override of a request, resolved as lines 311-324 resolve it, and
\* whether it is available: it names an existing document.
OverridePath(e, alias_map) == custom_prompt_path(e.text, alias_map)
OverrideAvailable(e, alias_map, d) ==
    /\ OverridePath(e, alias_map) # NoPath
    /\ PathExists(d, OverridePath(e, alias_map))
OverrideUnknown(e, alias_map, d) ==
    /\ OverridePath(e, alias_map) # NoPath
    /\ ~PathExists(d, OverridePath(e, alias_map))
KeywordOrDefault(keyword) ==
    IF keyword \in DOMAIN commandToPromptFilePath
    THEN commandToPromptFilePath[keyword]
    ELSE SYSTEM_PROMPT_ANA_PATH

\* C3: in the step that takes in a validated request, the template chosen is
\* the override when the override resolves to an existing document; otherwise
\* the Trigger Table entry of the invocation keyword when the keyword is
\* mapped; otherwise the fixed default.
C3_SelectionPrecedence ==
    [][\A s \in Slots :
          IF pc[s] = "idle" /\ req'[s].active
          THEN ValidatedEvent(req'[s].event) =>
                  /\ pc'[s] = "preview_pic"
                  /\ loc'[s].prompt_to_use_path =
                        IF OverrideAvailable(req'[s].event, PROMPT_ALIAS_MAP, disk)
                        THEN OverridePath(req'[s].event, PROMPT_ALIAS_MAP)
                        ELSE KeywordOrDefault(req'[s].trigger)
          ELSE TRUE]_vars

\* A validated request whose override names an existing document other than
\* the keyword's template has been given the override.
C3_Witness ==
    \E s \in Slots :
        /\ req[s].active /\ pc[s] = "preview_pic"
        /\ ValidatedEvent(req[s].event)
        /\ Carries(req[s].event, "--prompt=")
        /\ loc[s].prompt_to_use_path = <<"prompts", "how_to_say.md">>
        /\ loc[s].prompt_to_use_path # KeywordOrDefault(req[s].trigger)

\* C4 (as the claim states it): a validated request whose override resolves to
\* no existing document is answered with a single reply and goes no further.
C4_Original ==
    [][\A s \in Slots :
          IF pc[s] = "idle" /\ req'[s].active
          THEN (/\ ValidatedEvent(req'[s].event)
                /\ OverrideUnknown(req'[s].event, PROMPT_ALIAS_MAP, disk)) =>
                  /\ pc'[s] = "returned"
                  /\ Len(sent'[s]) = 1
                  /\ CompletionCalls(s)' = {}
          ELSE TRUE]_vars

\* C4 (amended): a validated request whose override resolves to no existing
\* document is not answered about it: the keyword's Trigger Table entry (or
\* the default) is chosen, and the request goes on to render the preview of
\* that template.
C4_UnknownOverrideFallsThrough ==
    [][\A s \in Slots :
          IF pc[s] = "idle" /\ req'[s].active
          THEN (/\ ValidatedEvent(req'[s].event)
                /\ OverrideUnknown(req'[s].event, PROMPT_ALIAS_MAP, disk)) =>
                  /\ pc'[s] = "preview_pic"
                  /\ sent'[s] = <<>>
                  /\ loc'[s].prompt_to_use_path = KeywordOrDefault(req'[s].trigger)
                  /\ Len(calls'[s]) = 1
                  /\ calls'[s][1].api = "md_to_pic"
                  /\ calls'[s][1].args.md = loc'[s].system_prompt
          ELSE TRUE]_vars

\* A request whose override names no template has called the completion API
\* with the keyword's template.
C4_Witness ==
    \E s \in Slots :
        /\ req[s].active
        /\ ValidatedEvent(req[s].event)
        /\ \E i \in 1..Len(req[s].event.text) :
              /\ req[s].event.text[i].opt = "--prompt="
              /\ req[s].event.text[i].arg = "nope"
        /\ loc[s].prompt_to_use_path = KeywordOrDefault(req[s].trigger)
        /\ \E i \in CompletionCalls(s) :
              calls[s][i].args[1].content = loc[s].system_prompt

\* C5 (as the claim states it): when the completion call fails the request
\* yields exactly one failure reply, no result, and no reply of the request
\* contains an image segment.
C5_Original ==
    \A s \in Slots :
        IF pc[s] = "returned" /\ CompletionFailed(s)
        THEN /\ Cardinality({i \in 1..Len(sent[s]) : IsFailureNotice(sent[s][i])}) = 1
             /\ \A i \in 1..Len(sent[s]) : ~CarriesSomeResult(sent[s][i])
             /\ \A i \in 1..Len(sent[s]) : ~HasImageSegment(sent[s][i])
        ELSE TRUE

\* C5 (amended): when the completion call fails the request yields, after the
\* progress message, exactly one failure reply; no result is sent, and the
\* failure reply contains no image segment.
C5_OneFailureNoticeAfterProgress ==
    \A s \in Slots :
        IF pc[s] = "returned" /\ CompletionFailed(s)
        THEN /\ Len(sent[s]) = 2
             /\ IsProgress(sent[s][1]) /\ ~IsFailureNotice(sent[s][1])
             /\ IsFailureNotice(sent[s][2])
             /\ ~HasImageSegment(sent[s][2])
             /\ \A i \in 1..Len(sent[s]) : ~CarriesSomeResult(sent[s][i])
        ELSE TRUE

\* The completion call has failed in a request whose progress message carried
\* the picture of the template.
C5_Witness ==
    \E s \in Slots :
        /\ pc[s] = "returned" /\ CompletionFailed(s)
        /\ Len(sent[s]) = 2
        /\ HasImageSegment(sent[s][1])
        /\ IsFailureNotice(sent[s][2])

\* C6 (as the claim states it): when the completion call succeeds and the
\* render of its result fails, the request yields exactly one plain-text reply
\* with the full result, and no image segment is sent.
C6_Original ==
    \A s \in Slots :
        IF pc[s] = "returned" /\ ResultRenderFailed(s)
        THEN /\ Cardinality({i \in 1..Len(sent[s]) :
                                TextCarries(sent[s][i], loc[s].llm_result)}) = 1
             /\ \A i \in 1..Len(sent[s]) : ~HasImageSegment(sent[s][i])
        ELSE TRUE

\* C6 (amended): when the completion call succeeds and the render of its
\* result fails, the request yields, after the progress message, exactly one
\* reply: plain text with the full result and no image segment.
C6_FullResultAsTextAfterProgress ==
    \A s \in Slots :
        IF pc[s] = "returned" /\ ResultRenderFailed(s)
        THEN /\ Len(sent[s]) = 2
             /\ IsProgress(sent[s][1]) /\ ~CarriesSomeResult(sent[s][1])
             /\ TextCarries(sent[s][2], loc[s].llm_result)
             /\ ~HasImageSegment(sent[s][2])
        ELSE TRUE

\* The render of the result has failed in a request whose progress message
\* carried the picture of the template.
C6_Witness ==
    \E s \in Slots :
        /\ pc[s] = "returned" /\ ResultRenderFailed(s)
        /\ Len(sent[s]) = 2
        /\ HasImageSegment(sent[s][1])
        /\ TextCarries(sent[s][2], loc[s].llm_result)

(***************************************************************************)
(* The template registry: what the claims say of it.                       *)
(***************************************************************************)
\* the keys a file can register
RegistryKeys ==
    MdNames \cup {Stem(n) : n \in MdNames} \cup {"al", "x", "7"}
\* The aliases a file declares: the strings of the list under "alias" in its
\* front matter.
DeclaredAliases(file) ==
    LET front_matter == parse_yaml_front_matter(file).front_matter
    IN  IF front_matter.kind = "dict" /\ front_matter.alias.present
           /\ front_matter.alias.is_list
        THEN {front_matter.alias.items[i].v : i \in
                 {j \in 1..Len(front_matter.alias.items) : front_matter.alias.items[j].is_str}}
        ELSE {}
\* The file registers the key: as its full name, its stem or a declared alias.
Registers(d, name, k) ==
    k = name \/ k = Stem(name) \/ k \in DeclaredAliases(d[name])
\* positions, in the sorted scan of the directory, of the files that register k
Registrants(d, k) ==
    {i \in 1..Len(SortedMdFiles(d)) : Registers(d, SortedMdFiles(d)[i], k)}
\* The mapping is the whole scan of the directory, last writer winning.
IsScanOf(map, d) ==
    /\ DOMAIN map = {k \in RegistryKeys : Registrants(d, k) # {}}
    /\ \A k \in DOMAIN map :
          map[k] = <<"prompts", SortedMdFiles(d)[SetMax(Registrants(d, k))]>>

\* C11: after a refresh over the directory, scanned in sorted order, every key
\* resolves to the last file of the scan that registers it as its full name,
\* its stem or one of its declared aliases.
C11_LastWriterWins ==
    [][disk' = disk => IsScanOf(PROMPT_ALIAS_MAP', disk)]_vars

\* Both files declare the alias "x", and the refreshed registry resolves it
\* to the second of them.
C11_Witness ==
    /\ "x" \in DeclaredAliases(disk["alignment_prompt.md"])
    /\ "x" \in DeclaredAliases(disk["how_to_say.md"])
    /\ IsScanOf(PROMPT_ALIAS_MAP, disk)
    /\ PROMPT_ALIAS_MAP["x"] = <<"prompts", "how_to_say.md">>
    /\ pc = [s \in Slots |-> "idle"]

(***************************************************************************)
(* The front-matter parser and the loader: what the claims say of them.    *)
(* The format is read line by line: a delimiter line is a line of three    *)
(* dashes (white space may trail); the opening delimiter is the first line *)
(* of the text, the closing one the first delimiter line after it; the     *)
(* metadata block is what lies between, the body what follows.             *)
(***************************************************************************)
\* where the delimiter line that starts at token i ends (its newline)
DelimiterLineEnds(c, i) ==
    {e \in (i + 1)..Len(c) :
        /\ c[i] = "---"
        /\ IF i = 1 THEN TRUE ELSE c[i - 1] = "\n"
        /\ c[e] = "\n"
        /\ \A m \in (i + 1)..(e - 1) : c[m] = " "}
IsDelimiterLine(c, i) == DelimiterLineEnds(c, i) # {}
HasOpening(c) == Len(c) > 0 /\ IsDelimiterLine(c, 1)
OpeningEnd(c) == SetMin(DelimiterLineEnds(c, 1))
ClosingStarts(c) == {j \in (OpeningEnd(c) + 1)..Len(c) : IsDelimiterLine(c, j)}
HasDelimiters(c) == IF HasOpening(c) THEN ClosingStarts(c) # {} ELSE FALSE
ClosingStart(c) == SetMin(ClosingStarts(c))
MetadataBlock(c) == SubSeq(c, OpeningEnd(c) + 1, ClosingStart(c) - 1)
BodyAfter(c) == SubSeq(c, SetMin(DelimiterLineEnds(c, ClosingStart(c))) + 1, Len(c))
\* the block is a key-value mapping
ValidFrontMatter(c) ==
    IF HasDelimiters(c)
    THEN /\ ~yaml_safe_load(MetadataBlock(c)).raises
         /\ yaml_safe_load(MetadataBlock(c)).value.kind = "dict"
    ELSE FALSE
\* the block cannot be parsed
BadFrontMatter(c) ==
    IF HasDelimiters(c) THEN yaml_safe_load(MetadataBlock(c)).raises ELSE FALSE

DocReadable == disk[DocFile].exists /\ disk[DocFile].readable
DocText == disk[DocFile].text
Parsed == IF parsed.done THEN parsed.call = "parse" ELSE FALSE
Loaded == IF parsed.done THEN parsed.call = "load" ELSE FALSE

\* C12 (as the claim states it): for a readable document with well-formed
\* front matter, load returns exactly the body, the front matter stripped,
\* also when the body is empty.
C12_LoadReturnsBody ==
    (Loaded /\ DocReadable /\ ValidFrontMatter(DocText)) =>
        parsed.value = BodyAfter(DocText)

\* A document with well-formed front matter and an empty body has been
\* loaded: what was returned is the whole text, front matter included.
C12_Witness ==
    /\ Loaded /\ DocReadable /\ ValidFrontMatter(DocText)
    /\ BodyAfter(DocText) = <<>>
    /\ parsed.value = DocText

C14_NoDelimitersUnchanged ==
    (Parsed /\ DocReadable /\ ~HasDelimiters(DocText)) =>
        /\ parsed.front_matter = YamlNone
        /\ parsed.content = DocText
        /\ ~parsed.raised

\* A document with an opening delimiter line, a metadata line and no closing
\* delimiter has been parsed.
C14_Witness ==
    /\ Parsed /\ DocReadable
    /\ HasOpening(DocText) /\ ~HasDelimiters(DocText)
    /\ \E i \in 1..Len(DocText) : DocText[i] = "alias: [al]"
    /\ parsed.content = DocText

\* C15 (as the claim states it): for a document with well-formed delimiters
\* and a valid metadata block, the body the parser returns is exactly the
\* text after the closing delimiter line, nothing of it dropped, and the
\* metadata is that of the block between the first delimiter pair.
C15_BodyExact ==
    (Parsed /\ DocReadable /\ ValidFrontMatter(DocText)) =>
        /\ parsed.content = BodyAfter(DocText)
        /\ parsed.front_matter = yaml_safe_load(MetadataBlock(DocText)).value

\* A document whose body starts with a blank line has been parsed: the body
\* returned is shorter than the text after the closing delimiter line.
C15_Witness ==
    /\ Parsed /\ DocReadable /\ ValidFrontMatter(DocText)
    /\ Len(BodyAfter(DocText)) > 1
    /\ BodyAfter(DocText)[1] = "\n"
    /\ Len(parsed.content) < Len(BodyAfter(DocText))

\* C16: when the delimiters are well-formed and the metadata block cannot be
\* parsed, the parser returns no metadata and an empty body, and nothing
\* propagates.
C16_BadBlockGivesNothing ==
    (Parsed /\ DocReadable /\ BadFrontMatter(DocText)) =>
        /\ parsed.front_matter = YamlNone
        /\ parsed.content = <<>>
        /\ parsed.raised

\* A document with a bad metadata block and a body has been parsed.
C16_Witness ==
    /\ Parsed /\ DocReadable /\ BadFrontMatter(DocText)
    /\ BodyAfter(DocText) # <<>>
    /\ parsed.content = <<>>

(***************************************************************************)
(* The dispatch on the flags of the command text.                          *)
(***************************************************************************)
\* the step takes in a request in slot s
TakesIn(s) == pc[s] = "idle" /\ req'[s].active
\* the step goes on with the request of slot s
GoesOn(s) == IF req[s].active THEN req'[s] = req[s] ELSE FALSE
\* the concatenation of all template documents has been given to the renderer
RendersTemplateList(cs, d) ==
    /\ Len(cs) = 1
    /\ cs[1].api = "md_to_pic"
    /\ cs[1].args.md = final_md_of(d)

\* C17: a request whose text carries the list-templates flag refreshes the
\* registry before anything is sent, then answers with the template list (its
\* picture when the render returns) and ends: it is not validated, no template
\* is selected for it and it makes no completion call, an override and a
\* quoted forward notwithstanding.  A request that carries only an override
\* is not short-circuited: it is validated.
C17_ListFlagShortCircuits ==
    [][\A s \in Slots :
          /\ IF TakesIn(s)
             THEN /\ Carries(req'[s].event, "--prompts") =>
                       /\ IsScanOf(PROMPT_ALIAS_MAP', disk)
                       /\ loc'[s].prompt_to_use_path = NoPath
                       /\ \/ /\ pc'[s] = "list_pic"
                             /\ sent'[s] = <<>>
                             /\ RendersTemplateList(calls'[s], disk)
                          \/ /\ pc'[s] = "returned"
                             /\ SortedMdFiles(disk) = <<>>
                             /\ Len(sent'[s]) = 1
                             /\ calls'[s] = <<>>
                  /\ (/\ Carries(req'[s].event, "--prompt=")
                      /\ ~CarriesDispatchFlag(req'[s].event)) =>
                       /\ PROMPT_ALIAS_MAP' = PROMPT_ALIAS_MAP
                       /\ IF QuotesForward(req'[s].event)
                          THEN pc'[s] = "preview_pic"
                          ELSE /\ pc'[s] = "returned"
                               /\ Len(sent'[s]) = 1
                               /\ IsUsageHint(sent'[s][1], req'[s].event)
             ELSE TRUE
          /\ IF GoesOn(s)
             THEN (Carries(req[s].event, "--prompts") /\ pc'[s] # pc[s]) =>
                       /\ pc[s] = "list_pic"
                       /\ pc'[s] = "returned"
                       /\ Len(sent'[s]) = 1
                       /\ ~IsProgress(sent'[s][1])
                       /\ ~IsUsageHint(sent'[s][1], req[s].event)
                       /\ HasImageSegment(sent'[s][1]) =>
                             \E i \in 1..Len(sent'[s][1]) :
                                 /\ sent'[s][1][i].type = "image"
                                 /\ sent'[s][1][i].data.file.rendered = calls[s][1].args.md
                       /\ CompletionCalls(s)' = {}
                       /\ Len(calls'[s]) = 1
                       /\ loc'[s].prompt_to_use_path = NoPath
             ELSE TRUE]_vars

\* A request with the list flag, an override and a quoted forward has been
\* answered with the picture of the template list, and with nothing else.
C17_Witness ==
    \E s \in Slots :
        /\ req[s].active /\ pc[s] = "returned"
        /\ Carries(req[s].event, "--prompts")
        /\ Carries(req[s].event, "--prompt=")
        /\ QuotesForward(req[s].event)
        /\ Len(sent[s]) = 1
        /\ HasImageSegment(sent[s][1])
        /\ CompletionCalls(s) = {}

(***************************************************************************)
(* The completion call.                                                    *)
(***************************************************************************)
\* the serialized flattening of the bundle the request quotes
SerializedTranscript(e) ==
    json_dumps([t |-> "list", v |-> messageToSimple(e.reply.message[1].data.content)])
\* the reply names the template file
Announces(m, filename) ==
    \E i \in 1..Len(m) :
        /\ m[i].type = "text"
        /\ \E k \in 1..Len(m[i].data.text) : m[i].data.text[k] = filename

\* C18: the template body is loaded from the template that selection chose
\* when the request is taken in; every completion call of the request has
\* exactly two turns, the system turn being that body with nothing appended
\* and the user turn the serialized flattening of the quoted bundle; the
\* preview and the result replies name the file of that same template.
C18_TwoTurns ==
    [][\A s \in Slots :
          /\ IF TakesIn(s)
             THEN ValidatedEvent(req'[s].event) =>
                     loc'[s].system_prompt =
                         load_prompt_content(disk, loc'[s].prompt_to_use_path)
             ELSE TRUE
          /\ IF GoesOn(s)
             THEN /\ loc'[s].prompt_to_use_path = loc[s].prompt_to_use_path
                  /\ loc'[s].system_prompt = loc[s].system_prompt
                  /\ \A i \in CompletionCalls(s)' :
                        /\ Len(calls'[s][i].args) = 2
                        /\ calls'[s][i].args[1] =
                              [role |-> "system", content |-> loc[s].system_prompt]
                        /\ calls'[s][i].args[2] =
                              [role |-> "user",
                               content |-> SerializedTranscript(req[s].event)]
                  /\ Cardinality(CompletionCalls(s)') <= 1
                  /\ \A i \in 1..Len(sent'[s]) :
                        (IsProgress(sent'[s][i]) \/ CarriesSomeResult(sent'[s][i])) =>
                            Announces(sent'[s][i], PathName(loc[s].prompt_to_use_path))
             ELSE TRUE]_vars

\* A request has had its result: the completion call was made with the body of
\* the template the override names, and both replies name that template.
C18_Witness ==
    \E s \in Slots :
        /\ req[s].active /\ pc[s] = "returned"
        /\ Len(sent[s]) = 2
        /\ CarriesSomeResult(sent[s][2])
        /\ loc[s].prompt_to_use_path = <<"prompts", "how_to_say.md">>
        /\ Announces(sent[s][1], "how_to_say.md")
        /\ Announces(sent[s][2], "how_to_say.md")
        /\ \E i \in CompletionCalls(s) :
              /\ calls[s][i].args[1].content = <<"long-body">>
              /\ calls[s][i].outcome = "returned"

(***************************************************************************)
(* Requests served interleaved.                                            *)
(***************************************************************************)
\* the message is a reply to the message id, and to nothing else
AddressedTo(m, id) ==
    /\ Len(m) > 0
    /\ m[1].type = "reply"
    /\ m[1].data.id = id
    /\ \A k \in 2..Len(m) : m[k].type # "reply"

\* C19: every message a request has sent, on whatever path, is a reply to
\* the message id of that request, also while another request is served.
C19_RepliesToTrigger ==
    \A s \in Slots :
        \A i \in 1..Len(sent[s]) :
            AddressedTo(sent[s][i], req[s].event.message_id)

\* Two requests with different message ids are under way, one has sent its
\* preview and the other one its only reply.
C19_Witness ==
    \E s \in Slots, o \in Slots :
        /\ s # o
        /\ req[s].active /\ req[o].active
        /\ req[s].event.message_id # req[o].event.message_id
        /\ pc[s] = "preview_sent" /\ Len(sent[s]) = 1
        /\ pc[o] = "returned" /\ Len(sent[o]) = 1
        /\ AddressedTo(sent[s][1], req[s].event.message_id)
        /\ AddressedTo(sent[o][1], req[o].event.message_id)

\* the request resolves an override name and goes on to template selection
ResolvesOverride(e) ==
    /\ Carries(e, "--prompt=")
    /\ ~CarriesDispatchFlag(e)
    /\ ValidatedEvent(e)
\* the mapping is the whole scan of some state of the directory
IsWholeScan(map) == \E d \in ConcDisks : IsScanOf(map, d)

\* C20: the registry changes only in the step of a request with the
\* list-templates flag, which leaves it the whole scan of the directory; a
\* request that resolves an override name, whatever else is under way, uses
\* the registry as it stands, which is the whole scan of some state of the
\* directory, and leaves it as it is.
C20_RegistryNeverPartial ==
    [][/\ IF \E s \in Slots :
                IF TakesIn(s) THEN Carries(req'[s].event, "--prompts") ELSE FALSE
          THEN IsScanOf(PROMPT_ALIAS_MAP', disk)
          ELSE PROMPT_ALIAS_MAP' = PROMPT_ALIAS_MAP
       /\ \A s \in Slots :
             IF TakesIn(s)
             THEN ResolvesOverride(req'[s].event) =>
                     /\ IsWholeScan(PROMPT_ALIAS_MAP)
                     /\ PROMPT_ALIAS_MAP' = PROMPT_ALIAS_MAP
                     /\ loc'[s].prompt_to_use_path =
                           IF OverrideAvailable(req'[s].event, PROMPT_ALIAS_MAP, disk)
                           THEN OverridePath(req'[s].event, PROMPT_ALIAS_MAP)
                           ELSE KeywordOrDefault(req'[s].trigger)
             ELSE TRUE]_vars

\* A request has refreshed the registry and awaits the picture of the list,
\* while another one, which named the alias before the refresh registered it,
\* goes on with the default template.
C20_Witness ==
    \E s \in Slots, o \in Slots :
        /\ s # o
        /\ pc[s] = "list_pic"
        /\ Carries(req[s].event, "--prompts")
        /\ pc[o] = "preview_pic"
        /\ ResolvesOverride(req[o].event)
        /\ "x" \in DOMAIN PROMPT_ALIAS_MAP
        /\ IsScanOf(PROMPT_ALIAS_MAP, disk)
        /\ loc[o].prompt_to_use_path # PROMPT_ALIAS_MAP["x"]

(***************************************************************************)
(* Failures of the renderer and of the completion call.                    *)
(***************************************************************************)
RenderCalls(s) ==
    {i \in 1..Len(calls[s]) : calls[s][i].api \in {"md_to_pic", "html_to_pic"}}
SomeRenderFailed(s) == \E i \in RenderCalls(s) : calls[s][i].outcome = "raised"
\* the request of slot s makes a step of its own
Advances(s) == IF GoesOn(s) THEN pc'[s] # pc[s] ELSE FALSE
\* the render of the preview raised
PreviewRenderFailed(s) ==
    /\ Len(calls[s]) > 0
    /\ calls[s][1].api = "md_to_pic"
    /\ calls[s][1].outcome = "raised"
    /\ loc[s].prompt_to_use_path # NoPath

\* C21: whether the render of the preview returns or raises, a progress reply
\* is sent (plain text when it raised) and the request goes on: its next step
\* makes the completion call on a well-formed quoted bundle, and a returned
\* completion is followed by the render of the result.  The step of the
\* result render adds one reply and leaves the preview as it was sent.  A
\* request in which a render raised never ends without a reply.
C21_RenderFallbackIndependent ==
    [][\A s \in Slots :
          IF Advances(s)
          THEN /\ pc[s] = "preview_pic" =>
                    /\ pc'[s] = "preview_sent"
                    /\ Len(sent'[s]) = 1
                    /\ IsProgress(sent'[s][1])
                    /\ PreviewRenderFailed(s)' => ~HasImageSegment(sent'[s][1])
               /\ (pc[s] = "preview_sent" /\ ~TranscriptRaises(req[s].event)) =>
                    /\ Cardinality(CompletionCalls(s)') = 1
                    /\ sent'[s][1] = sent[s][1]
                    /\ ~CompletionFailed(s)' =>
                          /\ pc'[s] = "result_pic"
                          /\ calls'[s][Len(calls'[s])].api = "md_to_pic"
                          /\ calls'[s][Len(calls'[s])].outcome = "pending"
                          /\ calls'[s][Len(calls'[s])].args.md = <<loc'[s].llm_result>>
               /\ pc[s] = "result_pic" =>
                    /\ pc'[s] = "returned"
                    /\ Len(sent'[s]) = 2
                    /\ sent'[s][1] = sent[s][1]
                    /\ ~IsProgress(sent'[s][2])
                    /\ CarriesSomeResult(sent'[s][2])
               /\ (pc'[s] = "returned" /\ SomeRenderFailed(s)') => Len(sent'[s]) >= 1
          ELSE TRUE]_vars

\* Both renders of a request raised: it has ended with the plain-text
\* progress reply and the plain-text result.
C21_Witness ==
    \E s \in Slots :
        /\ req[s].active /\ pc[s] = "returned"
        /\ PreviewRenderFailed(s)
        /\ ResultRenderFailed(s)
        /\ Len(sent[s]) = 2
        /\ IsProgress(sent[s][1]) /\ ~HasImageSegment(sent[s][1])
        /\ CarriesSomeResult(sent[s][2]) /\ ~HasImageSegment(sent[s][2])

\* the text holds the whole content, token for token
HoldsAll(text, content) ==
    \E k \in 0..Len(text) :
        IF k + Len(content) <= Len(text)
        THEN SubSeq(text, k + 1, k + Len(content)) = content
        ELSE FALSE
\* a text segment of the message holds the whole content
DeliversAsText(m, content) ==
    /\ ~HasImageSegment(m)
    /\ \E i \in 1..Len(m) :
          IF m[i].type = "text" THEN HoldsAll(m[i].data.text, content) ELSE FALSE
\* the render that was awaited in slot s raises in this step
RenderRaises(s) ==
    IF Advances(s)
    THEN /\ pc[s] \in {"list_pic", "preview_pic", "result_pic"}
         /\ calls'[s][Len(calls[s])].outcome = "raised"
    ELSE FALSE
\* what was given to the renderer
ToBeRendered(s) == calls[s][Len(calls[s])].args.md
LastSent(s) == sent[s][Len(sent[s])]

\* C22 (as the claim states it): at each of the three rendering points, the
\* reply sent when the renderer raises holds as plain text the whole content
\* that was given to the renderer.
C22_Original ==
    [][\A s \in Slots :
          RenderRaises(s) => DeliversAsText(LastSent(s)', ToBeRendered(s))]_vars

\* C22 (amended): when the renderer raises, the reply is plain text; for the
\* final answer it holds the whole answer; for the template list it holds the
\* first ListPreviewChars characters of the list followed by "..."; for the
\* preview it is the progress text that names the template file, and the
\* body of the template is not in it.
C22_FallbackTexts ==
    [][\A s \in Slots :
          IF RenderRaises(s)
          THEN /\ Len(sent'[s]) = Len(sent[s]) + 1
               /\ ~HasImageSegment(LastSent(s)')
               /\ pc[s] = "result_pic" =>
                     DeliversAsText(LastSent(s)', ToBeRendered(s))
               /\ pc[s] = "list_pic" =>
                     /\ Len(LastSent(s)') = 2
                     /\ LastSent(s)'[2].type = "text"
                     /\ \E head \in {SubSeq(LastSent(s)'[2].data.text, 1, 5)} :
                           LastSent(s)'[2].data.text =
                               head \o TakeChars(ToBeRendered(s), ListPreviewChars)
                                    \o <<"...">>
                     /\ DeliversAsText(LastSent(s)', ToBeRendered(s)) <=>
                           TakeChars(ToBeRendered(s), ListPreviewChars) = ToBeRendered(s)
               /\ pc[s] = "preview_pic" =>
                     /\ IsProgress(LastSent(s)')
                     /\ Announces(LastSent(s)', PathName(loc[s].prompt_to_use_path))
                     /\ ~DeliversAsText(LastSent(s)', ToBeRendered(s))
          ELSE TRUE]_vars

\* The render of a template list longer than ListPreviewChars characters has
\* raised, and the reply holds a cut token of the list.
C22_Witness ==
    \E s \in Slots :
        /\ req[s].active /\ pc[s] = "returned"
        /\ Carries(req[s].event, "--prompts")
        /\ SomeRenderFailed(s)
        /\ Len(sent[s]) = 1
        /\ ~DeliversAsText(sent[s][1], calls[s][1].args.md)
        /\ \E k \in 1..Len(sent[s][1][2].data.text) :
              sent[s][1][2].data.text[k] = "(part of) long-body"

\* the calls of a request that was validated: the render of the preview, the
\* completion call, the render of the result, each at most once and in this
\* order
AnalysisCalls == <<"md_to_pic", "chat.completions.create", "md_to_pic">>
InOrderOnce(cs) ==
    /\ Len(cs) <= Len(AnalysisCalls)
    /\ \A i \in 1..Len(cs) : cs[i].api = AnalysisCalls[i]
\* a call that raised is the last call of its kind
NoSecondAttempt(cs) ==
    \A i \in 1..Len(cs) :
        cs[i].outcome = "raised" =>
            \A j \in (i + 1)..Len(cs) :
                cs[j].api # cs[i].api \/ cs[j].args # cs[i].args

\* C23: a validated request calls the renderer for the preview at most once,
\* the completion API at most once and the renderer for the result at most
\* once; a call that raised is never made again; the step in which a render
\* raises sends the plain-text fallback and makes no renderer call, and the
\* step in which the completion call raises sends the failure notice and ends
\* the request.
C23_SingleAttempt ==
    [][\A s \in Slots :
          IF GoesOn(s) /\ ValidatedEvent(req[s].event)
          THEN /\ InOrderOnce(calls'[s])
               /\ NoSecondAttempt(calls'[s])
               /\ Cardinality(CompletionCalls(s)') <= 1
               /\ RenderRaises(s) =>
                     /\ Len(sent'[s]) = Len(sent[s]) + 1
                     /\ ~HasImageSegment(LastSent(s)')
                     /\ RenderCalls(s)' = RenderCalls(s)
               /\ (~CompletionFailed(s) /\ CompletionFailed(s)') =>
                     /\ pc'[s] = "returned"
                     /\ Len(sent'[s]) = Len(sent[s]) + 1
                     /\ IsFailureNotice(LastSent(s)')
                     /\ Len(calls'[s]) = Len(calls[s]) + 1
          ELSE TRUE]_vars

\* The completion call of a request raised: the request has ended with the
\* failure notice after this one call.
C23_Witness ==
    \E s \in Slots :
        /\ req[s].active /\ pc[s] = "returned"
        /\ CompletionFailed(s)
        /\ Cardinality(CompletionCalls(s)) = 1
        /\ Len(calls[s]) = 2
        /\ Len(sent[s]) = 2
        /\ IsFailureNotice(sent[s][2])

(***************************************************************************)
(* The handler returns.                                                    *)
(***************************************************************************)
HandlerPlaces ==
    {"idle", "list_pic", "html_pic220", "html_pic96", "preview_pic", "preview_sent",
     "result_pic", "returned"}
\* the next run of the handler of slot s, from the await it is at
Resume(s) ==
    \/ ListRender(s)
    \/ HtmlRender220(s)
    \/ HtmlRender96(s)
    \/ PreviewRender(s)
    \/ Complete(s)
    \/ ResultRender(s)
Logged(s, tag) == \E i \in 1..Len(errlog[s]) : errlog[s][i] = tag
\* the quoted content of a validated request cannot be flattened
MalformedQuoted(e) ==
    IF ValidatedEvent(e)
    THEN IF "content" \in DOMAIN e.reply.message[1].data
         THEN messageToSimpleRaises(e.reply.message[1].data.content)
         ELSE TRUE
    ELSE FALSE

\* C24: a request the gate accepted is always at a place of the handler,
\* never outside it with an exception; while it has not returned, the handler
\* can run on; and what failed on its way was caught and logged: a renderer
\* call, the completion call, the read of the chosen template, the flattening
\* of a malformed quoted content.
C24_NeverCrashes ==
    \A s \in Slots :
        /\ pc[s] \in HandlerPlaces
        /\ pc[s] \notin {"idle", "returned"} => ENABLED Resume(s)
        /\ req[s].active =>
              /\ check_user_permission(req[s].event, driver_config)
              /\ SomeRenderFailed(s) => Logged(s, "md_to_pic") \/ Logged(s, "html_to_pic")
              /\ CompletionFailed(s) => Logged(s, "llm")
              /\ (MalformedQuoted(req[s].event) /\ pc[s] = "returned") =>
                    Logged(s, "handle_ana_command")
              /\ (~MalformedQuoted(req[s].event)) => ~Logged(s, "handle_ana_command")

\* The template of a request could not be read, the render of its preview
\* raised and its quoted content is malformed: the handler has returned, with
\* the three failures logged.
C24_Witness ==
    \E s \in Slots :
        /\ req[s].active /\ pc[s] = "returned"
        /\ MalformedQuoted(req[s].event)
        /\ PreviewRenderFailed(s)
        /\ loc[s].system_prompt = FallbackPrompt
        /\ Logged(s, "load_prompt_content")
        /\ Logged(s, "md_to_pic")
        /\ Logged(s, "handle_ana_command")

(***************************************************************************)
(* What a request changes.                                                 *)
(***************************************************************************)
\* the step is the first run of a request with the list-templates flag
ListFlagTakenIn ==
    \E s \in Slots :
        IF TakesIn(s) THEN Carries(req'[s].event, "--prompts") ELSE FALSE

\* C25: the registry changes in no step but the first run of a request with
\* the list-templates flag: not when a request without the flag is taken in,
\* not in a later step of any request whatever its outcome, not when the
\* directory is edited; and no step changes the allow-lists.
C25_OnlyListFlagMutates ==
    [][/\ PROMPT_ALIAS_MAP' # PROMPT_ALIAS_MAP => ListFlagTakenIn
       /\ driver_config' = driver_config]_vars

\* A request without the list-templates flag has ended with its result while
\* the registry is out of date, as it was left.
C25_Witness ==
    \E s \in Slots :
        /\ req[s].active /\ pc[s] = "returned"
        /\ ~Carries(req[s].event, "--prompts")
        /\ Len(sent[s]) = 2
        /\ CarriesSomeResult(sent[s][2])
        /\ ~IsScanOf(PROMPT_ALIAS_MAP, disk)

(***************************************************************************)
(* Where a request waits.                                                  *)
(***************************************************************************)
\* the calls the step of slot s adds to its log
NewCalls(s) == {i \in 1..Len(calls'[s]) : i > Len(calls[s])}

\* C26 (as the claim states it): the completion call is a point where the
\* request waits: the run of the handler that makes the call ends with the
\* call unanswered, so that other requests can be started and advanced before
\* the answer is there.
C26_CompletionSuspends ==
    [][\A s \in Slots :
          IF Advances(s)
          THEN \A i \in NewCalls(s) :
                  calls'[s][i].api = "chat.completions.create" =>
                      calls'[s][i].outcome = "pending"
          ELSE TRUE]_vars

\* The completion call of one request has been made and answered while
\* another request, whose preview is sent, has its own call still to make.
C26_Witness ==
    \E s \in Slots, o \in Slots :
        /\ s # o
        /\ pc[s] = "result_pic"
        /\ \E i \in CompletionCalls(s) : calls[s][i].outcome = "returned"
        /\ pc[o] = "preview_sent"
        /\ CompletionCalls(o) = {}

(***************************************************************************)
(* The keywords of the matcher and the trigger table.                      *)
(***************************************************************************)
\* C27: the command name and every alias the matcher is created with are
\* keys of the trigger table; a request is taken in under one of these
\* keywords, and the template chosen for a validated request is the override
\* when it is available and the entry of the keyword in the table otherwise:
\* the fixed default is never what selection falls through to.
C27_KeywordsAreTableKeys ==
    [][/\ \A k \in MatcherKeywords : k \in DOMAIN commandToPromptFilePath
       /\ \A s \in Slots :
             IF TakesIn(s)
             THEN /\ req'[s].trigger \in MatcherKeywords
                  /\ req'[s].trigger \in DOMAIN commandToPromptFilePath
                  /\ ValidatedEvent(req'[s].event) =>
                        loc'[s].prompt_to_use_path =
                            IF OverrideAvailable(req'[s].event, PROMPT_ALIAS_MAP, disk)
                            THEN OverridePath(req'[s].event, PROMPT_ALIAS_MAP)
                            ELSE commandToPromptFilePath[req'[s].trigger]
             ELSE TRUE]_vars

\* A request dispatched under an alias of the first trigger, with an override
\* that names no file, has the template of that trigger.
C27_Witness ==
    \E s \in Slots :
        /\ req[s].active /\ pc[s] = "preview_pic"
        /\ req[s].trigger = "caipan"
        /\ Carries(req[s].event, "--prompt=")
        /\ OverrideUnknown(req[s].event, PROMPT_ALIAS_MAP, disk)
        /\ loc[s].prompt_to_use_path = triggers["justice"].promptFilePath

(***************************************************************************)
(* A refresh over a directory with a bad file.                             *)
(***************************************************************************)
AliasField(file) == parse_yaml_front_matter(file).front_matter.alias
\* the alias field is there and is not a list of strings
NotListOfStrings(file) ==
    /\ AliasField(file).present
    /\ \/ ~AliasField(file).is_list
       \/ \E i \in 1..Len(AliasField(file).items) : ~AliasField(file).items[i].is_str
\* the alias field is there and is not a list
NotAList(file) == AliasField(file).present /\ ~AliasField(file).is_list
FrontMatterFails(file) == parse_yaml_front_matter(file).raised
\* the directory with the file replaced by one that declares no alias
WithoutAliases(d, name) == [d EXCEPT ![name] = File(DocPlain)]
NamesRegistered(map, d) ==
    \A name \in MdNames :
        d[name].exists => name \in DOMAIN map /\ Stem(name) \in DOMAIN map

\* C28 (as the claim states it): after a refresh, a file whose front matter
\* cannot be parsed, or whose alias field is not a list of strings, has its
\* name and its stem registered, and the registry is what it would be if
\* that file declared no alias.
C28_Original ==
    [][disk' = disk =>
          /\ NamesRegistered(PROMPT_ALIAS_MAP', disk)
          /\ \A name \in MdNames :
                (/\ disk[name].exists
                 /\ FrontMatterFails(disk[name]) \/ NotListOfStrings(disk[name])) =>
                    IsScanOf(PROMPT_ALIAS_MAP', WithoutAliases(disk, name))]_vars

\* C28 (amended): after a refresh every file of the directory has its name
\* and its stem registered; a file whose front matter cannot be parsed, or
\* whose alias field is not a list, leaves the registry as if it declared no
\* alias; of a list, the items that are not strings are passed over one by
\* one and the strings are registered.
C28_BadFileKeepsNames ==
    [][disk' = disk =>
          /\ NamesRegistered(PROMPT_ALIAS_MAP', disk)
          /\ \A name \in MdNames :
                /\ (/\ disk[name].exists
                    /\ FrontMatterFails(disk[name]) \/ NotAList(disk[name])) =>
                       IsScanOf(PROMPT_ALIAS_MAP', WithoutAliases(disk, name))
                /\ (disk[name].exists /\ AliasField(disk[name]).is_list) =>
                       \A i \in 1..Len(AliasField(disk[name]).items) :
                           LET item == AliasField(disk[name]).items[i]
                           IN  IF item.is_str
                               THEN item.v \in DOMAIN PROMPT_ALIAS_MAP'
                               ELSE item.v \in DOMAIN PROMPT_ALIAS_MAP' =>
                                       \E other \in MdNames :
                                           Registers(disk, other, item.v)]_vars

\* The first file declares the list [7, x] and the other one no alias: the
\* refreshed registry resolves "x" to the first file and has no key "7".
C28_Witness ==
    /\ disk["alignment_prompt.md"] = File(DocAliasInt)
    /\ disk["how_to_say.md"] = File(DocPlain)
    /\ IsScanOf(PROMPT_ALIAS_MAP, disk)
    /\ "x" \in DOMAIN PROMPT_ALIAS_MAP
    /\ PROMPT_ALIAS_MAP["x"] = <<"prompts", "alignment_prompt.md">>
    /\ "7" \notin DOMAIN PROMPT_ALIAS_MAP

(***************************************************************************)
(* Where an override can point.                                            *)
(***************************************************************************)
\* a file name made of name characters only, other than "." and ".."
SingleFileNames ==
    (NameRuns \cup {n \o ".md" : n \in NameRuns}) \ {".", ".."}
\* the path is the template directory joined with one file name
DirectChild(path) ==
    /\ Len(path) = 2
    /\ path[1] = "prompts"
    /\ path[2] \in SingleFileNames
\* the path is a value of the registry: a file of the scanned directory
RegistryValue(path) ==
    \E k \in DOMAIN PROMPT_ALIAS_MAP :
        /\ PROMPT_ALIAS_MAP[k] = path
        /\ \E n \in MdNames : path = <<"prompts", n>>
Resolved == IF parsed.done THEN parsed.call = "resolve" ELSE FALSE

\* C29: whatever follows "--prompt=", and whether or not the registry is up
\* to date with the directory, the
\* path of the override is a value of the registry or the template directory
\* joined with one file name, and the template chosen is that path or a path
\* of the trigger table: never a path of another directory.
C29_OverrideStaysInside ==
    [][(parsed' # parsed /\ Resolved') =>
          /\ parsed'.custom_prompt_path # NoPath =>
                \/ RegistryValue(parsed'.custom_prompt_path)
                \/ DirectChild(parsed'.custom_prompt_path)
          /\ \/ parsed'.prompt_to_use_path = parsed'.custom_prompt_path
             \/ parsed'.prompt_to_use_path = KeywordOrDefault(parsed'.trigger)
          /\ Len(parsed'.prompt_to_use_path) = 2
          /\ parsed'.prompt_to_use_path[1] = "prompts"]_vars

\* The override "--prompt=../nope" has been resolved: the name taken is "..",
\* and the path is the file "...md" of the template directory.
C29_Witness ==
    /\ Resolved
    /\ parsed.raw = <<"..", "/", "nope">>
    /\ parsed.custom_prompt_path = <<"prompts", "...md">>
    /\ parsed.prompt_to_use_path = KeywordOrDefault(parsed.trigger)

(***************************************************************************)
(* Specifications.                                                         *)
(***************************************************************************)
InitFlat ==
    /\ FlatIdle
    /\ GateIdle
    /\ HandlerIdle /\ NoDisk
    /\ DocIdle
    /\ driver_config = [ANA_USER_ID_ALLOW_LIST |-> {},
                        JUSTICE_USER_ID_ALLOW_LIST |-> {},
                        GROUP_ID_ALLOW_LIST |-> {}]

NextFlat ==
    \/ OpenBundle
    \/ AddText
    \/ AddOther
    \/ OpenForward
    \/ CloseForward
    \/ Flatten

SpecFlat == InitFlat /\ [][NextFlat]_vars

InitGate ==
    /\ FlatIdle
    /\ GateIdle
    /\ HandlerIdle /\ NoDisk
    /\ DocIdle
    /\ driver_config \in Configs

NextGate == GateCheck

SpecGate == InitGate /\ [][NextGate]_vars

\* The handler serving one request after another, while the operator edits
\* the prompts directory.
Init ==
    /\ FlatIdle
    /\ GateIdle
    /\ driver_config \in [ANA_USER_ID_ALLOW_LIST : {{}, {1}},
                          JUSTICE_USER_ID_ALLOW_LIST : {{}},
                          GROUP_ID_ALLOW_LIST : {{}}]
    /\ HandlerInit
    /\ DocIdle

Next ==
    \/ Start("r1")
    \/ ListRender("r1")
    \/ HtmlRender220("r1")
    \/ HtmlRender96("r1")
    \/ PreviewRender("r1")
    \/ Complete("r1")
    \/ ResultRender("r1")
    \/ Release("r1")
    \/ DiskChange

Spec == Init /\ [][Next]_vars

\* The registry alone: edits of the directory and refreshes.
InitRegistry ==
    /\ FlatIdle
    /\ GateIdle
    /\ driver_config = [ANA_USER_ID_ALLOW_LIST |-> {},
                        JUSTICE_USER_ID_ALLOW_LIST |-> {},
                        GROUP_ID_ALLOW_LIST |-> {}]
    /\ HandlerIdle
    /\ RegistryInit
    /\ DocIdle

NextRegistry ==
    \/ Refresh
    \/ RegistryEdit

SpecRegistry == InitRegistry /\ [][NextRegistry]_vars

\* Two requests served interleaved: each runs from one await to the next, in
\* any order, while the operator edits the prompts directory.
InitConc ==
    /\ FlatIdle
    /\ GateIdle
    /\ driver_config = [ANA_USER_ID_ALLOW_LIST |-> {1},
                        JUSTICE_USER_ID_ALLOW_LIST |-> {},
                        GROUP_ID_ALLOW_LIST |-> {}]
    /\ HandlerIdle
    /\ disk \in ConcDisks
    /\ PROMPT_ALIAS_MAP = load_prompt_aliases(disk)
    /\ DocIdle

Step(s) ==
    \/ StartConc(s)
    \/ ListRender(s)
    \/ HtmlRender220(s)
    \/ HtmlRender96(s)
    \/ PreviewRender(s)
    \/ Complete(s)
    \/ ResultRender(s)
    \/ Release(s)

NextConc ==
    \/ Step("r1")
    \/ Step("r2")
    \/ DiskChangeConc

SpecConc == InitConc /\ [][NextConc]_vars

\* The parser and the loader alone, on every document up to MaxDocLen tokens.
InitDocs ==
    /\ FlatIdle
    /\ GateIdle
    /\ driver_config = [ANA_USER_ID_ALLOW_LIST |-> {},
                        JUSTICE_USER_ID_ALLOW_LIST |-> {},
                        GROUP_ID_ALLOW_LIST |-> {}]
    /\ HandlerIdle
    /\ DocsInit

NextDocs ==
    \/ AppendToken
    \/ ParseFile
    \/ LoadFile

SpecDocs == InitDocs /\ [][NextDocs]_vars

\* Overrides resolved while the second template is edited and the registry
\* is refreshed now and then.
InitOverride == InitConc

NextOverride ==
    \/ Refresh
    \/ DiskChangeConc
    \/ ResolveOverride

SpecOverride == InitOverride /\ [][NextOverride]_vars

====
